---- MODULE Spec2Model ----
(***************************************************************************)
(* A model of the Leadspicker n8n nodes: the HTTP request gateway           *)
(* (leadspickerApiRequest) with its proactive throttle and reactive retry,  *)
(* the response flattener (flattenLeadPayload), the identifier categorizer  *)
(* (categorizeBlacklistEntries), the paginated list operations, the lead    *)
(* payload builder, the node's per-item operations and the trigger's        *)
(* webhook hooks (checkExists, create, delete).                             *)
(*                                                                          *)
(* JavaScript values are tagged records [t |-> tag, v |-> payload].  A      *)
(* string whose characters the code inspects is a sequence of one-character *)
(* strings; a string the code only compares is a TLA+ string.               *)
(***************************************************************************)
EXTENDS Integers, Sequences, FiniteSets, TLC

VARIABLES
    gw_pc,      \* position inside leadspickerApiRequest
    attempt,    \* the for-loop counter of leadspickerApiRequest
    response,   \* what the transport produced for the current attempt
    calls,      \* transport calls issued so far (the fake transport's counter)
    sleeps,     \* the delays passed to sleep(), in order
    log,        \* every transport outcome of this call, in order
    result,     \* the value returned, or the error thrown, by the call
    fl_pc,      \* position of the flattening caller
    fl_in,      \* the value handed to flattenLeadPayload
    fl_out,     \* flattenLeadPayload(fl_in)
    fl_again,   \* flattenLeadPayload(fl_out)
    fl_person,  \* what the trigger's webhook() emits for the body fl_in
    cat_pc,     \* position of the categorizing caller
    cat_in,     \* the entries handed to categorizeBlacklistEntries
    cat_out,    \* the buckets it returned
    sp_pc,      \* position of the caller of splitIdentifierString
    sp_in,      \* the value handed to splitIdentifierString
    sp_out,     \* the list it returned
    ag_pc,      \* position inside a paginating operation
    ag_op,      \* which paginating operation runs
    server,     \* what the vendor holds and how it answers
    iteration,  \* the loop counter of the pagination loop
    position,   \* page (lead list), offset (reply list) or cursor (reactors)
    records,    \* the chunks accumulated so far (persons / replies / results)
    requests,   \* the position carried by every gateway call, in order
    ag_result,  \* what the operation returned or threw
    pl_pc,      \* position of the caller of buildLeadPayload
    pl_params,  \* the node parameters of the item
    pl_body,    \* the payload buildLeadPayload returned
    wh_calls,   \* webhook hooks run so far
    staticData, \* the workflow static data of the trigger node
    vendor,     \* ids of the webhooks registered at Leadspicker
    wh_last,    \* the last hook run: its name, its request, the gateway's outcome
    issued,     \* the webhook ids the vendor has ever handed out
    wh_result,  \* what the last hook returned or threw
    vd_pc,      \* position inside an operation of one input item
    vd_op,      \* the operation run for the item
    vd_params,  \* the node parameters of the item
    vd_requests,\* the gateway requests the operation issued, in order
    vd_result,  \* what the operation returned or threw
    ce_pc,      \* position inside the checkExists hook
    ce_params,  \* the trigger's webhook URL and parameters
    ce_response,\* what the vendor answers to GET /webhooks
    ce_result   \* what checkExists returned or threw

gw_vars == <<gw_pc, attempt, response, calls, sleeps, log, result>>
fl_vars == <<fl_pc, fl_in, fl_out, fl_again, fl_person>>
cat_vars == <<cat_pc, cat_in, cat_out>>
sp_vars == <<sp_pc, sp_in, sp_out>>
ag_vars == <<ag_pc, ag_op, server, iteration, position, records, requests, ag_result>>
pl_vars == <<pl_pc, pl_params, pl_body>>

wh_vars == <<wh_calls, staticData, vendor, issued, wh_last, wh_result>>

vd_vars == <<vd_pc, vd_op, vd_params, vd_requests, vd_result>>

ce_vars == <<ce_pc, ce_params, ce_response, ce_result>>

vars == <<gw_vars, fl_vars, cat_vars, sp_vars, ag_vars, pl_vars, wh_vars, vd_vars, ce_vars>>

(***************************************************************************)
(* JavaScript values                                                        *)
(***************************************************************************)
Undef == [t |-> "undef"]
Null == [t |-> "null"]
Str(s) == [t |-> "str", v |-> s]
Num(n) == [t |-> "num", v |-> n]
Arr(s) == [t |-> "arr", v |-> s]
Obj(f) == [t |-> "obj", v |-> f]
NaN == [t |-> "nan"]

Digits == <<"0", "1", "2", "3", "4", "5", "6", "7", "8", "9">>

IsDigit(c) == \E d \in 1..10 : Digits[d] = c

DigitValue(c) == (CHOOSE d \in 1..10 : Digits[d] = c) - 1

\* The line break characters are written "LF" and "CR", the tab "TAB".
IsSpace(c) == c \in {" ", "TAB", "LF", "CR"}

RECURSIVE TrimStart(_)
TrimStart(s) ==
    IF s # <<>> /\ IsSpace(Head(s)) THEN TrimStart(Tail(s)) ELSE s

RECURSIVE TrimEnd(_)
TrimEnd(s) ==
    IF s # <<>> /\ IsSpace(s[Len(s)]) THEN TrimEnd(SubSeq(s, 1, Len(s) - 1)) ELSE s

\* String.prototype.trim
Trim(s) == TrimEnd(TrimStart(s))

RECURSIVE DecimalValue(_)
DecimalValue(s) ==
    IF s = <<>> THEN 0
    ELSE 10 * DecimalValue(SubSeq(s, 1, Len(s) - 1)) + DigitValue(s[Len(s)])

AllDigits(s) == s # <<>> /\ \A i \in 1..Len(s) : IsDigit(s[i])

\* Number(x) for undefined and for strings of digits, sign and blanks:
\* blanks are trimmed, the empty string is 0, anything unparsable is NaN.
ToJsNumber(x) ==
    IF x.t = "undef" THEN NaN
    ELSE LET s == Trim(x.v) IN
         IF s = <<>> THEN Num(0)
         ELSE IF AllDigits(s) THEN Num(DecimalValue(s))
         ELSE IF Head(s) = "-" /\ AllDigits(Tail(s)) THEN Num(0 - DecimalValue(Tail(s)))
         ELSE IF Head(s) = "+" /\ AllDigits(Tail(s)) THEN Num(DecimalValue(Tail(s)))
         ELSE NaN

(***************************************************************************)
(* The HTTP request gateway                                                 *)
(***************************************************************************)
RATE_LIMIT_THRESHOLD == 10
THROTTLE_DELAY_MS == 1000
RETRY_DELAY_MS == 10000
MAX_RETRIES == 6

RECURSIVE toNumber(_)
toNumber(headerValue) ==
    IF headerValue.t = "arr"
    THEN toNumber(IF headerValue.v = <<>> THEN Undef ELSE headerValue.v[1])
    ELSE LET parsed == ToJsNumber(headerValue) IN
         IF parsed.t = "nan" THEN Undef ELSE parsed

\* Mutant: both readings must be low (&& for ||).
shouldThrottle_BothLow(headers) ==
    LET remainingMinute == toNumber(headers.minute)
        remainingDay == toNumber(headers.day)
    IN  /\ (remainingMinute # Undef /\ remainingMinute.v < RATE_LIMIT_THRESHOLD)
        /\ (remainingDay # Undef /\ remainingDay.v < RATE_LIMIT_THRESHOLD)

shouldThrottle(headers) ==
    LET remainingMinute == toNumber(headers.minute)
        remainingDay == toNumber(headers.day)
    IN  \/ (remainingMinute # Undef /\ remainingMinute.v < RATE_LIMIT_THRESHOLD)
        \/ (remainingDay # Undef /\ remainingDay.v < RATE_LIMIT_THRESHOLD)

\* Mutant: no status is ever extracted, so nothing is retried.
getStatusCode_Never(error) == "undefined"

\* A status reading that also accepts a numeric code.
getStatusCode_AnyType(error) ==
    IF error.httpCode.t = "str" THEN error.httpCode.v
    ELSE IF error.httpCode = [t |-> "num", v |-> 429] THEN "429"
    ELSE "undefined"

\* The status of a thrown error: its httpCode when that is a string.
getStatusCode(error) ==
    IF error.httpCode.t = "str" THEN error.httpCode.v ELSE "undefined"

ExceededError ==
    [message |-> "Exceeded retry attempts after repeated rate limit responses.",
     httpCode |-> [t |-> "absent"]]

\* What the transport can answer -------------------------------------------
HeaderValues ==
    { Undef,
      Str(<<>>), Str(<<"5">>), Str(<<"9">>), Str(<<"1", "0">>), Str(<<"1", "5">>),
      Str(<<"a", "b">>), Str(<<" ", "7", " ">>), Str(<<"-", "1">>),
      Arr(<<>>),
      Arr(<<Str(<<"5">>), Str(<<"2", "0">>)>>),
      Arr(<<Str(<<"2", "0">>), Str(<<"5">>)>>) }

HeaderMaps == [minute : HeaderValues, day : HeaderValues]

EmptyHeaders == [minute |-> Undef, day |-> Undef]

Bodies == {"bodyA", "bodyB"}

TransportErrors ==
    { [message |-> "Too Many Requests", httpCode |-> [t |-> "str", v |-> "429"]],
      [message |-> "Too Many Requests (numeric)", httpCode |-> [t |-> "num", v |-> 429]],
      [message |-> "Internal Server Error", httpCode |-> [t |-> "str", v |-> "500"]],
      [message |-> "Not Found", httpCode |-> [t |-> "str", v |-> "404"]],
      [message |-> "ECONNRESET", httpCode |-> [t |-> "absent"]] }

Successes == { [ok |-> TRUE, body |-> b, headers |-> h] : b \in Bodies, h \in HeaderMaps \cup {Undef} }

Failures == { [ok |-> FALSE, error |-> e] : e \in TransportErrors }

NoResponse == [ok |-> FALSE, error |-> [message |-> "", httpCode |-> [t |-> "absent"]]]

NoResult == [kind |-> "none"]

GwInit ==
    /\ gw_pc = "loop"
    /\ attempt = 0
    /\ response = NoResponse
    /\ calls = 0
    /\ sleeps = <<>>
    /\ log = <<>>
    /\ result = NoResult

\* The loop head and the awaited transport call of one attempt.
Request ==
    /\ gw_pc = "loop"
    /\ IF attempt < MAX_RETRIES
       THEN \E r \in Successes \cup Failures :
               /\ response' = r
               /\ calls' = calls + 1
               /\ log' = Append(log, r)
               /\ gw_pc' = IF r.ok THEN "try" ELSE "catch"
               /\ UNCHANGED result
       ELSE /\ gw_pc' = "failed"
            /\ result' = [kind |-> "error", error |-> ExceededError]
            /\ UNCHANGED <<response, calls, log>>
    /\ UNCHANGED <<attempt, sleeps>>
    /\ UNCHANGED <<fl_vars, cat_vars, sp_vars, ag_vars, pl_vars, wh_vars, vd_vars, ce_vars>>

\* The try block after the transport answered: throttle or return at once.
HandleResponse ==
    /\ gw_pc = "try"
    /\ IF shouldThrottle(IF response.headers = Undef THEN EmptyHeaders ELSE response.headers)
       THEN /\ gw_pc' = "throttleSleep"
            /\ UNCHANGED result
       ELSE /\ gw_pc' = "done"
            /\ result' = [kind |-> "value", body |-> response.body]
    /\ UNCHANGED <<attempt, response, calls, sleeps, log>>
    /\ UNCHANGED <<fl_vars, cat_vars, sp_vars, ag_vars, pl_vars, wh_vars, vd_vars, ce_vars>>

\* await sleep(THROTTLE_DELAY_MS) resolves; the body is returned.
ThrottleWake ==
    /\ gw_pc = "throttleSleep"
    /\ sleeps' = Append(sleeps, THROTTLE_DELAY_MS)
    /\ gw_pc' = "done"
    /\ result' = [kind |-> "value", body |-> response.body]
    /\ UNCHANGED <<attempt, response, calls, log>>
    /\ UNCHANGED <<fl_vars, cat_vars, sp_vars, ag_vars, pl_vars, wh_vars, vd_vars, ce_vars>>

\* Mutant: the catch block retries whatever was thrown while attempts remain.
HandleError_RetryAny ==
    /\ gw_pc = "catch"
    /\ IF attempt < MAX_RETRIES - 1
       THEN /\ gw_pc' = "retrySleep"
            /\ UNCHANGED result
       ELSE /\ gw_pc' = "failed"
            /\ result' = [kind |-> "error", error |-> response.error]
    /\ UNCHANGED <<attempt, response, calls, sleeps, log>>
    /\ UNCHANGED <<fl_vars, cat_vars, sp_vars, ag_vars, pl_vars, wh_vars, vd_vars, ce_vars>>

\* Mutant: a 429 on the last attempt is slept on too.
HandleError_RetryOnLast ==
    /\ gw_pc = "catch"
    /\ IF getStatusCode(response.error) = "429" /\ attempt < MAX_RETRIES
       THEN /\ gw_pc' = "retrySleep"
            /\ UNCHANGED result
       ELSE /\ gw_pc' = "failed"
            /\ result' = [kind |-> "error", error |-> response.error]
    /\ UNCHANGED <<attempt, response, calls, sleeps, log>>
    /\ UNCHANGED <<fl_vars, cat_vars, sp_vars, ag_vars, pl_vars, wh_vars, vd_vars, ce_vars>>

\* The catch block: schedule a retry, or rethrow the caught error.
HandleError ==
    /\ gw_pc = "catch"
    /\ IF getStatusCode(response.error) = "429" /\ attempt < MAX_RETRIES - 1
       THEN /\ gw_pc' = "retrySleep"
            /\ UNCHANGED result
       ELSE /\ gw_pc' = "failed"
            /\ result' = [kind |-> "error", error |-> response.error]
    /\ UNCHANGED <<attempt, response, calls, sleeps, log>>
    /\ UNCHANGED <<fl_vars, cat_vars, sp_vars, ag_vars, pl_vars, wh_vars, vd_vars, ce_vars>>

\* await sleep(RETRY_DELAY_MS) resolves; continue with attempt++.
RetryWake ==
    /\ gw_pc = "retrySleep"
    /\ sleeps' = Append(sleeps, RETRY_DELAY_MS)
    /\ attempt' = attempt + 1
    /\ gw_pc' = "loop"
    /\ UNCHANGED <<response, calls, log, result>>
    /\ UNCHANGED <<fl_vars, cat_vars, sp_vars, ag_vars, pl_vars, wh_vars, vd_vars, ce_vars>>

(***************************************************************************)
(* The response flattener                                                   *)
(*                                                                          *)
(* An object is Obj(f), f a function from its keys (TLA+ strings) to        *)
(* values; an array is Arr(s), s a sequence of values.                      *)
(***************************************************************************)
isPlainObject(value) == value.t = "obj"

\* clone[key]: undefined when the key is missing.
Prop(f, key) == IF key \in DOMAIN f THEN f[key] ELSE Undef

\* A removal that removes nothing.
Without_Keep(f, key) == f

\* delete clone[key]
Without(f, key) == [k \in (DOMAIN f) \ {key} |-> f[k]]

AllowedKeys == {"value", "created", "id", "enrichment_status", "validation_status"}

\* Mutant: any object with a `value` key counts as a wrapper.
isAttributeValueObject_AnyValue(value) ==
    /\ isPlainObject(value)
    /\ "value" \in DOMAIN value.v

isAttributeValueObject(value) ==
    /\ isPlainObject(value)
    /\ "value" \in DOMAIN value.v
    /\ \A key \in DOMAIN value.v : key \in AllowedKeys

\* Mutant: a blank string counts as meaningful (the trim is forgotten).
hasMeaningfulValue_NoTrim(value) ==
    IF value.t \in {"undef", "null"} THEN FALSE
    ELSE IF value.t = "str" THEN value.v # <<>>
    ELSE TRUE

hasMeaningfulValue(value) ==
    IF value.t \in {"undef", "null"} THEN FALSE
    ELSE IF value.t = "str" THEN Trim(value.v) # <<>>
    ELSE TRUE

\* One of the two merge blocks of flattenLeadPayload: when clone[detailKey]
\* is a plain object, each of its entries is copied where the clone holds
\* nothing meaningful, and the detail key is deleted.
MergeDetail(clone, detailKey) ==
    LET detail == Prop(clone, detailKey) IN
    IF isPlainObject(detail)
    THEN LET merged ==
                 [k \in (DOMAIN clone) \cup (DOMAIN detail.v) |->
                     IF k \in DOMAIN detail.v /\ ~hasMeaningfulValue(Prop(clone, k))
                     THEN detail.v[k]
                     ELSE clone[k]]
         IN  Without(merged, detailKey)
    ELSE clone

RECURSIVE flattenLeadPayload(_)
flattenLeadPayload(data) ==
    IF data.t = "arr"
    THEN Arr([i \in 1..Len(data.v) |-> flattenLeadPayload(data.v[i])])
    ELSE IF ~isPlainObject(data) THEN data
    ELSE IF isAttributeValueObject(data) THEN flattenLeadPayload(data.v["value"])
    ELSE LET afterContact == MergeDetail(data.v, "contact_data")
             clone == MergeDetail(afterContact, "person_data")
         IN  Obj([key \in DOMAIN clone |->
                     IF clone[key].t = "arr" \/ isPlainObject(clone[key])
                     THEN flattenLeadPayload(clone[key])
                     ELSE clone[key]])

\* The records handed to the flattener -------------------------------------
Absent == [t |-> "absent"]

\* The object with the fields of a shape that are not Absent.
MkObj(shape) ==
    Obj([k \in {f \in DOMAIN shape : shape[f] # Absent} |-> shape[k]])

SX == Str(<<"x">>)
SY == Str(<<"y">>)
SZ == Str(<<"z">>)
SV == Str(<<"v">>)
ST == Str(<<"t">>)
Blank == Str(<<" ">>)

ContactObjects ==
    { MkObj(sh) : sh \in [foo : {Absent, Null, Blank, SY},
                          bar : {Absent, SZ},
                          id : {Absent, Num(2)},
                          person_data : {Absent, MkObj([foo |-> SZ])}] }

PersonObjects ==
    { MkObj(sh) : sh \in [foo : {Absent, Blank, SZ},
                          id : {Absent, Num(3)},
                          contact_data : {Absent, MkObj([bar |-> SY])}] }

ContactValues == ContactObjects \cup {Absent, Null, SX, Arr(<<MkObj([contact_data |-> MkObj([foo |-> SY])])>>)}

PersonValues == PersonObjects \cup {Absent, Null, Arr(<<>>)}

FooValues ==
    { Absent, Null, Blank, SX,
      MkObj([value |-> Blank, id |-> Num(1)]),
      Arr(<<MkObj([value |-> SV, created |-> ST]), SX>>) }

ValueValues == {Absent, SV, MkObj([value |-> SV, bar |-> SZ])}

LeadRecords ==
    { MkObj(sh) : sh \in [foo : FooValues,
                          value : ValueValues,
                          id : {Absent, Num(1)},
                          contact_data : ContactValues,
                          person_data : PersonValues] }

\* A few records to put inside arrays and wrappers.
NestedRecords ==
    { SX, Null,
      MkObj([foo |-> SX, contact_data |-> MkObj([foo |-> SY, bar |-> SZ])]),
      MkObj([value |-> SV, created |-> ST, id |-> Num(1)]),
      MkObj([value |-> SV, contact_data |-> MkObj([id |-> Num(2)])]),
      MkObj([person_data |-> MkObj([contact_data |-> MkObj([bar |-> SY])])]),
      MkObj([value |-> MkObj([value |-> SV, id |-> Num(1)]), created |-> ST]) }

MaxArrLen == 2

TupleOf(S, n) == [1..n -> S]

RecordArrays == { Arr(s) : s \in UNION { TupleOf(NestedRecords, n) : n \in 0..MaxArrLen } }

WrappedRecords ==
    { MkObj([value |-> r, created |-> c, id |-> Num(1)]) : r \in NestedRecords, c \in {Absent, ST} }

FlattenInputs == LeadRecords \cup NestedRecords \cup RecordArrays \cup WrappedRecords

FlInit ==
    /\ fl_pc = "start"
    /\ fl_in \in FlattenInputs
    /\ fl_out = Undef
    /\ fl_again = Undef
    /\ fl_person = Undef

\* A handler flattens the response it received.
Flatten ==
    /\ fl_pc = "start"
    /\ fl_out' = flattenLeadPayload(fl_in)
    /\ fl_pc' = "flattened"
    /\ UNCHANGED <<fl_in, fl_again, fl_person>>
    /\ UNCHANGED <<gw_vars, cat_vars, sp_vars, ag_vars, pl_vars, wh_vars, vd_vars, ce_vars>>

\* The flattened record is flattened once more (a lead passed through two
\* flattening handlers).
FlattenAgain ==
    /\ fl_pc = "flattened"
    /\ fl_again' = flattenLeadPayload(fl_out)
    /\ fl_pc' = "reflattened"
    /\ UNCHANGED <<fl_in, fl_out, fl_person>>
    /\ UNCHANGED <<gw_vars, cat_vars, sp_vars, ag_vars, pl_vars, wh_vars, vd_vars, ce_vars>>

\* ---- the trigger's receiver ---------------------------------------------
\* flattenPerson of the trigger: person_data lifted, top-level fields on top.
flattenPerson(person) ==
    IF ~isPlainObject(person) THEN Undef
    ELSE LET details == IF isPlainObject(Prop(person.v, "person_data"))
                        THEN Prop(person.v, "person_data").v
                        ELSE <<>>
             top == Without(person.v, "person_data")
         IN  Obj([k \in (DOMAIN details) \cup (DOMAIN top) |->
                     IF k \in DOMAIN top THEN top[k] ELSE details[k]])

\* persons.push(flattened) for every entry that flattens to an object.
RECURSIVE FlattenEach(_)
FlattenEach(entries) ==
    IF entries = <<>> THEN <<>>
    ELSE (IF flattenPerson(Head(entries)) = Undef THEN <<>>
          ELSE <<flattenPerson(Head(entries))>>) \o FlattenEach(Tail(entries))

\* a ?? b
Coalesce(a, b) == IF a.t \in {"undef", "null"} THEN b ELSE a

extractPersonsFromBody(body) ==
    IF ~isPlainObject(body) THEN <<>>
    ELSE LET personPayload == Coalesce(Prop(body.v, "person"), Prop(body.v, "persons")) IN
         IF personPayload.t = "arr" THEN FlattenEach(personPayload.v)
         ELSE FlattenEach(<<Coalesce(personPayload, body)>>)

\* The request body of a 'person_added' event carrying the record.
EventBody(wrap, record) ==
    CASE wrap = "person" -> MkObj([person |-> record])
      [] wrap = "persons" -> MkObj([persons |-> Arr(<<record>>)])
      [] OTHER -> record

\* The trigger receives a 'person_added' event carrying the record fl_in.
PersonAdded ==
    /\ fl_pc = "start"
    /\ \E wrap \in {"person", "persons", "body"} :
          fl_person' = [wrap |-> wrap,
                        emitted |-> extractPersonsFromBody(EventBody(wrap, fl_in))]
    /\ fl_pc' = "emitted"
    /\ UNCHANGED <<fl_in, fl_out, fl_again>>
    /\ UNCHANGED <<gw_vars, cat_vars, sp_vars, ag_vars, pl_vars, wh_vars, vd_vars, ce_vars>>

(***************************************************************************)
(* The identifier categorizer                                               *)
(***************************************************************************)
Upper == <<"A", "B", "C", "D", "E", "H", "I", "K", "L", "M", "N", "O", "P", "S", "Y">>
Lower == <<"a", "b", "c", "d", "e", "h", "i", "k", "l", "m", "n", "o", "p", "s", "y">>

LowerChar(c) ==
    IF \E i \in 1..Len(Upper) : Upper[i] = c
    THEN Lower[CHOOSE i \in 1..Len(Upper) : Upper[i] = c]
    ELSE c

\* String.prototype.toLowerCase
ToLowerCase(s) == [i \in 1..Len(s) |-> LowerChar(s[i])]

\* String.prototype.includes
Includes(s, needle) ==
    \E i \in 1..(Len(s) - Len(needle) + 1) : SubSeq(s, i, i + Len(needle) - 1) = needle

At == <<"@">>
LinkedinCom == <<"l", "i", "n", "k", "e", "d", "i", "n", ".", "c", "o", "m", "/">>
LinkedinCompany == LinkedinCom \o <<"c", "o", "m", "p", "a", "n", "y">>
LinkedinSchool == LinkedinCom \o <<"s", "c", "h", "o", "o", "l">>

\* Mutant: the substrings are looked for in the entry as typed.
BucketOf_CaseSensitive(entry) ==
    IF Includes(entry, At) THEN "emails"
    ELSE IF Includes(entry, LinkedinCompany) \/ Includes(entry, LinkedinSchool)
         THEN "company_linkedins"
    ELSE IF Includes(entry, LinkedinCom) THEN "linkedins"
    ELSE "domains"

\* The body of the loop of categorizeBlacklistEntries: the bucket one entry
\* is pushed to.
BucketOf(entry) ==
    LET normalized == ToLowerCase(entry) IN
    IF Includes(entry, At) THEN "emails"
    ELSE IF Includes(normalized, LinkedinCompany) \/ Includes(normalized, LinkedinSchool)
         THEN "company_linkedins"
    ELSE IF Includes(normalized, LinkedinCom) THEN "linkedins"
    ELSE "domains"

EmptyBuckets ==
    [emails |-> <<>>, linkedins |-> <<>>, company_linkedins |-> <<>>, domains |-> <<>>]

\* Mutant: an email is pushed and the loop falls through to the other tests
\* (the `continue` is missing).
Push_EmailFallsThrough(buckets, entry) ==
    LET b == BucketOf(entry)
        pushed == [buckets EXCEPT ![b] = Append(@, entry)]
    IN  IF b = "emails"
        THEN [pushed EXCEPT !["domains"] = Append(@, entry)]
        ELSE pushed

Push(buckets, entry) ==
    [buckets EXCEPT ![BucketOf(entry)] = Append(@, entry)]

RECURSIVE PushAll(_, _)
PushAll(buckets, entries) ==
    IF entries = <<>> THEN buckets
    ELSE PushAll(Push(buckets, Head(entries)), Tail(entries))

categorizeBlacklistEntries(entries) == PushAll(EmptyBuckets, entries)

\* The identifiers handed to the categorizer -------------------------------
EntryPool ==
    { <<"a", "@", "b", ".", "c">>,
      <<"A", "@">> \o <<"L", "I", "N", "K", "E", "D", "I", "N", ".", "C", "O", "M", "/", "I", "N">>,
      LinkedinCompany \o <<"/", "@", "x">>,
      LinkedinCom \o <<"i", "n", "/", "a">>,
      <<"L", "I", "N", "K", "E", "D", "I", "N", ".", "C", "O", "M", "/">> \o <<"i", "n", "/", "B", "O", "B">>,
      LinkedinCom,
      <<"w", ".">> \o LinkedinCompany \o <<"/", "x">>,
      <<"L", "i", "n", "k", "e", "d", "I", "n", ".", "c", "o", "m", "/", "S", "c", "h", "o", "o", "l">> \o <<"/", "Y">>,
      <<"x", ".", "o", "r", "g">>,
      <<"s", "o", "m", "e", "l", "i", "n", "k", "e", "d", "i", "n", ".", "c", "o", "m">> }

MaxEntries == 3

EntryLists == UNION { TupleOf(EntryPool, n) : n \in 0..MaxEntries }

CatInit ==
    /\ cat_pc = "start"
    /\ cat_in \in EntryLists
    /\ cat_out = EmptyBuckets

Categorize ==
    /\ cat_pc = "start"
    /\ cat_out' = categorizeBlacklistEntries(cat_in)
    /\ cat_pc' = "done"
    /\ UNCHANGED cat_in
    /\ UNCHANGED <<gw_vars, fl_vars, sp_vars, ag_vars, pl_vars, wh_vars, vd_vars, ce_vars>>

(***************************************************************************)
(* The identifier splitter                                                  *)
(***************************************************************************)
\* String.prototype.split(/\r?\n/): the pieces between the line breaks, a
\* "CR" directly before an "LF" belonging to the break.
RECURSIVE SplitLines(_, _)
SplitLines(s, cur) ==
    IF s = <<>> THEN <<cur>>
    ELSE IF Head(s) = "LF" THEN <<cur>> \o SplitLines(Tail(s), <<>>)
    ELSE IF Head(s) = "CR" /\ Len(s) >= 2 /\ s[2] = "LF"
         THEN <<cur>> \o SplitLines(Tail(Tail(s)), <<>>)
    ELSE SplitLines(Tail(s), Append(cur, Head(s)))

NonEmpty(entry) == entry # <<>>

\* Mutant: the lines are not trimmed before the blank ones are dropped.
splitIdentifierString_NoTrim(value) ==
    IF value.t # "str" \/ Trim(value.v) = <<>> THEN <<>>
    ELSE SelectSeq(SplitLines(value.v, <<>>), NonEmpty)

splitIdentifierString(value) ==
    IF value.t # "str" \/ Trim(value.v) = <<>> THEN <<>>
    ELSE LET lines == SplitLines(value.v, <<>>)
             trimmed == [i \in 1..Len(lines) |-> Trim(lines[i])]
         IN  SelectSeq(trimmed, NonEmpty)

\* The values handed to the splitter ---------------------------------------
TextChars == {"a", "b", " ", "CR", "LF"}

MaxTextLen == 5

Texts == UNION { TupleOf(TextChars, n) : n \in 0..MaxTextLen }

SplitInputs == { Str(s) : s \in Texts } \cup {Undef, Null, Num(123), Arr(<<>>)}

SpInit ==
    /\ sp_pc = "start"
    /\ sp_in \in SplitInputs
    /\ sp_out = <<>>

\* A handler splits the text the vendor returned.
Split ==
    /\ sp_pc = "start"
    /\ sp_out' = splitIdentifierString(sp_in)
    /\ sp_pc' = "done"
    /\ UNCHANGED sp_in
    /\ UNCHANGED <<gw_vars, fl_vars, cat_vars, ag_vars, pl_vars, wh_vars, vd_vars, ce_vars>>

(***************************************************************************)
(* The pagination loops                                                     *)
(*                                                                          *)
(* An array of records is a sequence of runs [page, n, person]: the n       *)
(* records of server page `page`, each shaped like `person`.                *)
(***************************************************************************)
DEFAULT_PAGE_SIZE == 1000
ITERATION_CAP == 1000

\* Mutant: the loop admits one round more.
LoopContinues_OneMore(it) == it <= ITERATION_CAP

\* The loop condition of the four loops.
LoopContinues(it) == it < ITERATION_CAP

RECURSIVE LengthOf(_)
\* array.length
LengthOf(runs) == IF runs = <<>> THEN 0 ELSE Head(runs).n + LengthOf(Tail(runs))

\* A cursor token: a non-empty string naming the page it leads to.
Tok(k) == Str(<<"c", k>>)

\* if (cursor): null, undefined and the empty string are falsy.
Truthy(x) == x.t = "str" /\ x.v # <<>>

\* ---- the vendor ---------------------------------------------------------
PageSizeAt(srv, k) ==
    IF k <= Len(srv.sizes) THEN srv.sizes[k]
    ELSE IF srv.endless THEN DEFAULT_PAGE_SIZE ELSE 0

NextCursorAt(srv, k) ==
    IF k < Len(srv.sizes) \/ srv.endless THEN Tok(k + 1) ELSE srv.lastCursor

RunsAt(srv, k) ==
    IF PageSizeAt(srv, k) = 0 THEN <<>>
    ELSE << [page |-> k, n |-> PageSizeAt(srv, k), person |-> srv.person] >>

\* The body the vendor answers for page k, in the shape it uses.
Answer(srv, k) ==
    LET list == Arr(RunsAt(srv, k))
        extras == [count |-> IF srv.count = Undef THEN Absent ELSE srv.count,
                   next_cursor |-> IF NextCursorAt(srv, k) = Undef THEN Absent
                                   ELSE NextCursorAt(srv, k)]
    IN  CASE srv.shape = "items" ->
                MkObj([items |-> list, count |-> extras.count, next_cursor |-> extras.next_cursor])
          [] srv.shape = "results" ->
                MkObj([results |-> list, count |-> extras.count, next_cursor |-> extras.next_cursor])
          [] srv.shape = "array" -> list
          [] OTHER ->
                MkObj([data |-> list, count |-> extras.count, next_cursor |-> extras.next_cursor])

\* ---- the operations -----------------------------------------------------
\* response?.key
Field(resp, key) == IF resp.t = "obj" THEN Prop(resp.v, key) ELSE Undef

\* Mutant: only the `items` key is looked at.
PageChunk_ItemsOnly(resp) ==
    IF Field(resp, "items").t = "arr" THEN Field(resp, "items").v ELSE <<>>

\* The chunk of the lead and reply lists: items, else results, else the
\* response itself when an array, else nothing.
PageChunk(resp) ==
    IF Field(resp, "items").t = "arr" THEN Field(resp, "items").v
    ELSE IF Field(resp, "results").t = "arr" THEN Field(resp, "results").v
    ELSE IF resp.t = "arr" THEN resp.v
    ELSE <<>>

\* The chunk of the reactor searches: results, else nothing.
ResultsChunk(resp) ==
    IF Field(resp, "results").t = "arr" THEN Field(resp, "results").v ELSE <<>>

\* Mutant: a short chunk ends the lead list whether or not a count came.
LeadListBreaks_ShortAlways(resp, chunk, persons) ==
    \/ (Field(resp, "count").t = "num" /\ LengthOf(persons) >= Field(resp, "count").v)
    \/ LengthOf(chunk) < DEFAULT_PAGE_SIZE

\* The lead list, after pushing a non-empty chunk: does the loop break?
LeadListBreaks(resp, chunk, persons) ==
    IF Field(resp, "count").t = "num"
    THEN LengthOf(persons) >= Field(resp, "count").v
    ELSE LengthOf(chunk) < DEFAULT_PAGE_SIZE

\* Mutant: with a numeric count the short-chunk test is skipped.
ReplyListBreaks_CountOnly(resp, chunk, replies) ==
    IF Field(resp, "count").t = "num"
    THEN LengthOf(replies) >= Field(resp, "count").v
    ELSE LengthOf(chunk) < DEFAULT_PAGE_SIZE

\* The reply list, after pushing a non-empty chunk: does the loop break?
ReplyListBreaks(resp, chunk, replies) ==
    \/ (Field(resp, "count").t = "num" /\ LengthOf(replies) >= Field(resp, "count").v)
    \/ LengthOf(chunk) < DEFAULT_PAGE_SIZE

\* cursor = response?.next_cursor ?? null
NextCursor(resp) ==
    IF Field(resp, "next_cursor").t \in {"undef", "null"} THEN Null
    ELSE Field(resp, "next_cursor")

\* Mutant: the page counter is not advanced.
NextPage_Stuck(page) == page

NextPage(page) == Num(page.v + 1)

NextOffset(offset) == Num(offset.v + DEFAULT_PAGE_SIZE)

\* The page of the vendor a request asks for.
PageOfRequest(op, pos) ==
    IF op = "leadList" THEN pos.v
    ELSE IF op = "replyList" THEN (pos.v \div DEFAULT_PAGE_SIZE) + 1
    ELSE IF Truthy(pos) THEN pos.v[2] ELSE 1

\* What the request carries: page, offset, or the cursor when there is one.
RequestOf(op, pos) ==
    IF op \in {"leadList", "replyList"} THEN pos
    ELSE IF Truthy(pos) THEN pos ELSE Undef

\* return Leadspicker.flattenLeadPayload(persons)
FlattenRuns(runs) ==
    [i \in 1..Len(runs) |-> [runs[i] EXCEPT !.person = flattenLeadPayload(@)]]

\* Mutant: a gateway failure is swallowed and the pages so far are returned.
OnGatewayError_ReturnPartial(error, partial) == [kind |-> "value", body |-> partial]

\* A gateway failure is not caught: the operation throws it.
OnGatewayError(error, partial) == [kind |-> "error", error |-> error]

Returned(op, all) ==
    [kind |-> "value", body |-> IF op = "leadList" THEN FlattenRuns(all) ELSE all]

\* One round of the lead list: the request for the page, its answer.
LeadListPage ==
    /\ ag_pc = "loop"
    /\ ag_op = "leadList"
    /\ IF LoopContinues(iteration)
       THEN LET resp == Answer(server, PageOfRequest(ag_op, position))
                chunk == PageChunk(resp)
                persons == records \o chunk
            IN  /\ requests' = Append(requests, RequestOf(ag_op, position))
                /\ IF LengthOf(chunk) = 0
                   THEN /\ ag_pc' = "done"
                        /\ ag_result' = Returned(ag_op, records)
                        /\ UNCHANGED <<records, position, iteration>>
                   ELSE IF LeadListBreaks(resp, chunk, persons)
                   THEN /\ ag_pc' = "done"
                        /\ records' = persons
                        /\ ag_result' = Returned(ag_op, persons)
                        /\ UNCHANGED <<position, iteration>>
                   ELSE /\ records' = persons
                        /\ position' = NextPage(position)
                        /\ iteration' = iteration + 1
                        /\ UNCHANGED <<ag_pc, ag_result>>
       ELSE /\ ag_pc' = "done"
            /\ ag_result' = Returned(ag_op, records)
            /\ UNCHANGED <<records, position, iteration, requests>>
    /\ UNCHANGED <<ag_op, server>>
    /\ UNCHANGED <<gw_vars, fl_vars, cat_vars, sp_vars, pl_vars, wh_vars, vd_vars, ce_vars>>

\* One round of the reply list.
ReplyListPage ==
    /\ ag_pc = "loop"
    /\ ag_op = "replyList"
    /\ IF LoopContinues(iteration)
       THEN LET resp == Answer(server, PageOfRequest(ag_op, position))
                chunk == PageChunk(resp)
                replies == records \o chunk
            IN  /\ requests' = Append(requests, RequestOf(ag_op, position))
                /\ IF LengthOf(chunk) = 0
                   THEN /\ ag_pc' = "done"
                        /\ ag_result' = Returned(ag_op, records)
                        /\ UNCHANGED <<records, position, iteration>>
                   ELSE IF ReplyListBreaks(resp, chunk, replies)
                   THEN /\ ag_pc' = "done"
                        /\ records' = replies
                        /\ ag_result' = Returned(ag_op, replies)
                        /\ UNCHANGED <<position, iteration>>
                   ELSE /\ records' = replies
                        /\ position' = NextOffset(position)
                        /\ iteration' = iteration + 1
                        /\ UNCHANGED <<ag_pc, ag_result>>
       ELSE /\ ag_pc' = "done"
            /\ ag_result' = Returned(ag_op, records)
            /\ UNCHANGED <<records, position, iteration, requests>>
    /\ UNCHANGED <<ag_op, server>>
    /\ UNCHANGED <<gw_vars, fl_vars, cat_vars, sp_vars, pl_vars, wh_vars, vd_vars, ce_vars>>

\* One round of a reactor search (searchPostReactors, profilesPostReactors).
ReactorsPage(op) ==
    /\ ag_pc = "loop"
    /\ ag_op = op
    /\ IF LoopContinues(iteration)
       THEN LET resp == Answer(server, PageOfRequest(ag_op, position))
                chunk == ResultsChunk(resp)
                results == records \o chunk
            IN  /\ requests' = Append(requests, RequestOf(ag_op, position))
                /\ IF LengthOf(chunk) = 0
                   THEN /\ ag_pc' = "done"
                        /\ ag_result' = Returned(ag_op, records)
                        /\ UNCHANGED <<records, position, iteration>>
                   ELSE IF ~Truthy(NextCursor(resp))
                   THEN /\ ag_pc' = "done"
                        /\ records' = results
                        /\ position' = NextCursor(resp)
                        /\ ag_result' = Returned(ag_op, results)
                        /\ UNCHANGED iteration
                   ELSE /\ records' = results
                        /\ position' = NextCursor(resp)
                        /\ iteration' = iteration + 1
                        /\ UNCHANGED <<ag_pc, ag_result>>
       ELSE /\ ag_pc' = "done"
            /\ ag_result' = Returned(ag_op, records)
            /\ UNCHANGED <<records, position, iteration, requests>>
    /\ UNCHANGED <<ag_op, server>>
    /\ UNCHANGED <<gw_vars, fl_vars, cat_vars, sp_vars, pl_vars, wh_vars, vd_vars, ce_vars>>

SearchPostReactorsPage == ReactorsPage("searchPostReactors")

ProfilesPostReactorsPage == ReactorsPage("profilesPostReactors")

\* The gateway call of a round throws: nothing catches it inside the
\* operation, whose locals are gone.
GatewayThrows ==
    /\ ag_pc = "loop"
    /\ LoopContinues(iteration)
    /\ \E e \in TransportErrors :
          ag_result' = OnGatewayError(e, records)
    /\ requests' = Append(requests, RequestOf(ag_op, position))
    /\ ag_pc' = "failed"
    /\ records' = <<>>
    /\ UNCHANGED <<ag_op, server, iteration, position>>
    /\ UNCHANGED <<gw_vars, fl_vars, cat_vars, sp_vars, pl_vars, wh_vars, vd_vars, ce_vars>>

\* ---- the vendors and operations explored ----------------------------------
MaxPages == 3

ChunkSizes == {0, 400, DEFAULT_PAGE_SIZE}

PersonTemplates ==
    { MkObj([foo |-> SX]),
      MkObj([foo |-> Blank, person_data |-> MkObj([foo |-> SZ, id |-> Num(3)])]) }

FiniteServers ==
    [sizes : UNION { TupleOf(ChunkSizes, n) : n \in 0..MaxPages },
     endless : {FALSE},
     count : {Undef, Num(1400), Num(2000), Num(5000)},
     shape : {"items", "results", "array", "other"},
     lastCursor : {Null},
     person : {MkObj([foo |-> SX])}]

\* A vendor that answers a full page and a fresh cursor for ever.
EndlessServers ==
    [sizes : {<<>>},
     endless : {TRUE},
     count : {Undef},
     shape : {"items", "results"},
     lastCursor : {Null},
     person : {MkObj([foo |-> SX])}]

CursorServers ==
    [sizes : UNION { TupleOf(ChunkSizes, n) : n \in 0..MaxPages },
     endless : {FALSE},
     count : {Undef},
     shape : {"items", "results", "array", "other"},
     lastCursor : {Null, Undef, Str(<<>>)},
     person : {MkObj([foo |-> SX])}]

LeadServers ==
    { [srv EXCEPT !.person = p] :
         srv \in { f \in FiniteServers : f.shape # "other" \/ f.count = Undef },
         p \in PersonTemplates }

StartPosition(op) ==
    IF op = "leadList" THEN Num(1)
    ELSE IF op = "replyList" THEN Num(0)
    ELSE Null

AgInit ==
    /\ ag_pc = "loop"
    /\ ag_op \in {"leadList", "replyList", "searchPostReactors", "profilesPostReactors"}
    /\ server \in CASE ag_op = "leadList" -> LeadServers \cup EndlessServers
                    [] ag_op = "replyList" -> FiniteServers \cup EndlessServers
                    [] OTHER -> CursorServers \cup {srv \in EndlessServers : srv.shape = "results"}
    /\ iteration = 0
    /\ position = StartPosition(ag_op)
    /\ records = <<>>
    /\ requests = <<>>
    /\ ag_result = NoResult

FlIdle ==
    /\ fl_pc = "idle"
    /\ fl_in = Undef
    /\ fl_out = Undef
    /\ fl_again = Undef
    /\ fl_person = Undef

CatIdle ==
    /\ cat_pc = "idle"
    /\ cat_in = <<>>
    /\ cat_out = EmptyBuckets

SpIdle ==
    /\ sp_pc = "idle"
    /\ sp_in = Undef
    /\ sp_out = <<>>

AgIdle ==
    /\ ag_pc = "idle"
    /\ ag_op = "none"
    /\ server = Undef
    /\ iteration = 0
    /\ position = Undef
    /\ records = <<>>
    /\ requests = <<>>
    /\ ag_result = NoResult

PlIdle ==
    /\ pl_pc = "idle"
    /\ pl_params = Undef
    /\ pl_body = Undef

(***************************************************************************)
(* The lead payload builder                                                 *)
(***************************************************************************)
\* [node parameter, payload key], in the order of the code.
fieldMappings ==
    << <<"leadCountry", "country">>,
       <<"leadEmail", "email">>,
       <<"leadFirstName", "first_name">>,
       <<"leadLastName", "last_name">>,
       <<"leadPosition", "position">>,
       <<"leadCompanyName", "company_name">>,
       <<"leadCompanyWebsite", "company_website">>,
       <<"leadCompanyLinkedin", "company_linkedin">>,
       <<"leadLinkedin", "linkedin">>,
       <<"leadSalesNavigator", "salesnav">> >>

UserProvided == Str(<<"user_provided">>)

\* body[key] = value
Put(body, key, value) ==
    [k \in (DOMAIN body) \cup {key} |-> IF k = key THEN value ELSE body[k]]

RECURSIVE PutMapped(_, _, _)
\* for (const [paramName, payloadKey] of fieldMappings) body[payloadKey] = ...
PutMapped(body, params, mappings) ==
    IF mappings = <<>> THEN body
    ELSE PutMapped(Put(body, Head(mappings)[2], params[Head(mappings)[1]]),
                   params, Tail(mappings))

RECURSIVE SplitWhitespace(_, _)
\* String.prototype.split(/\s+/): a blank run ends a part; a leading or a
\* trailing run leaves an empty part.
SplitWhitespace(s, cur) ==
    IF s = <<>> THEN <<cur>>
    ELSE IF IsSpace(Head(s)) THEN <<cur>> \o SplitWhitespace(TrimStart(Tail(s)), <<>>)
    ELSE SplitWhitespace(Tail(s), Append(cur, Head(s)))

RECURSIVE JoinSpace(_)
\* Array.prototype.join(' ')
JoinSpace(parts) ==
    IF parts = <<>> THEN <<>>
    ELSE IF Len(parts) = 1 THEN parts[1]
    ELSE parts[1] \o <<" ">> \o JoinSpace(Tail(parts))

\* fullNameRaw.split(/\s+/).map(trim).filter(non-empty)
NameParts(fullNameRaw) ==
    LET parts == SplitWhitespace(fullNameRaw, <<>>)
        trimmed == [i \in 1..Len(parts) |-> Trim(parts[i])]
    IN  SelectSeq(trimmed, NonEmpty)

\* Mutant: one token is enough to override the names.
OverridesNames_OneToken(nameParts) == Len(nameParts) >= 1

\* if (nameParts.length >= 2)
OverridesNames(nameParts) == Len(nameParts) >= 2

WithFullName(body, fullNameRaw) ==
    IF fullNameRaw.t = "str" /\ OverridesNames(NameParts(fullNameRaw.v))
    THEN Put(Put(body, "first_name", Str(Head(NameParts(fullNameRaw.v)))),
             "last_name", Str(JoinSpace(Tail(NameParts(fullNameRaw.v)))))
    ELSE body

RECURSIVE CustomFieldsObj(_, _)
\* if (field.key && field.value) customFieldsObj[field.key] = field.value
CustomFieldsObj(obj, fields) ==
    IF fields = <<>> THEN obj
    ELSE CustomFieldsObj(
             IF Head(fields).key # "" /\ Truthy(Head(fields).value)
             THEN Put(obj, Head(fields).key, Head(fields).value)
             ELSE obj,
             Tail(fields))

WithCustomFields(body, customFields) ==
    IF Prop(customFields.v, "field").t = "arr"
          /\ DOMAIN CustomFieldsObj(<<>>, Prop(customFields.v, "field").v) # {}
    THEN Put(body, "custom_fields", Obj(CustomFieldsObj(<<>>, Prop(customFields.v, "field").v)))
    ELSE body

\* Mutant: only the empty string is dropped.
IsDropped_OnlyEmptyString(value) == value = Str(<<>>)

\* body[key] === '' || body[key] === null || body[key] === undefined
IsDropped(value) == value \in {Str(<<>>), Null, Undef}

buildLeadPayload(params) ==
    LET mapped == PutMapped([k \in {"data_source"} |-> UserProvided], params, fieldMappings)
        named == WithFullName(mapped, params["leadFullName"])
        body == WithCustomFields(named, params["customFields"])
    IN  [k \in {key \in DOMAIN body : ~IsDropped(body[key])} |-> body[k]]

\* ---- the parameters explored ---------------------------------------------
MaxNameLen == 5
MaxFields == 2

NameChars == {"a", "b", " "}

FullNames ==
    { Str(s) : s \in UNION { TupleOf(NameChars, n) : n \in 0..MaxNameLen } } \cup {Undef}

FieldEntries ==
    [key : {"", "k", "j"}, value : {Str(<<>>), Str(<<"v">>), Str(<<"w">>)}]

CustomFieldsValues ==
    { MkObj([field |-> Arr(s)]) : s \in UNION { TupleOf(FieldEntries, n) : n \in 0..MaxFields } }
    \cup { MkObj([field |-> Absent]), MkObj([field |-> Str(<<"x">>)]) }

NoFields == MkObj([field |-> Arr(<<>>)])

\* The parameters of an item: the ten mapped ones, the full name, the
\* custom fields.
Params(fullName, first, last, email, job, customFields) ==
    [p \in { fieldMappings[i][1] : i \in 1..Len(fieldMappings) }
            \cup {"leadFullName", "customFields"} |->
        CASE p = "leadFullName" -> fullName
          [] p = "leadFirstName" -> first
          [] p = "leadLastName" -> last
          [] p = "leadEmail" -> email
          [] p = "leadPosition" -> job
          [] p = "customFields" -> customFields
          [] OTHER -> Str(<<>>)]

ParamsPool ==
    { Params(n, f, l, Str(<<"e">>), Str(<<>>), NoFields) :
         n \in FullNames, f \in {Str(<<>>), Str(<<"f">>)}, l \in {Str(<<>>), Str(<<"l">>)} }
    \cup
    { Params(n, Str(<<"f">>), Str(<<>>), e, p, c) :
         n \in {Str(<<>>), Str(<<"a", " ", "b">>)},
         e \in {Str(<<>>), Str(<<"e">>), Null},
         p \in {Str(<<>>), Undef},
         c \in CustomFieldsValues }

PlInit ==
    /\ pl_pc = "start"
    /\ pl_params \in ParamsPool
    /\ pl_body = Undef

\* A lead create or update builds its payload from the item's parameters.
BuildLeadPayload ==
    /\ pl_pc = "start"
    /\ pl_body' = Obj(buildLeadPayload(pl_params))
    /\ pl_pc' = "built"
    /\ UNCHANGED pl_params
    /\ UNCHANGED <<gw_vars, fl_vars, cat_vars, sp_vars, ag_vars, wh_vars, vd_vars, ce_vars>>

(***************************************************************************)
(* The trigger's webhook hooks                                              *)
(***************************************************************************)
\* Number.isFinite(value) ? value : Number(string) unless blank or NaN.
toNumericId(value) ==
    IF value.t = "num" THEN value
    ELSE IF value.t = "str" /\ Trim(value.v) # <<>>
         THEN (IF ToJsNumber(value).t = "nan" THEN Undef ELSE ToJsNumber(value))
    ELSE Undef

\* An extraction that always finds an id.
extractWebhookId_OrZero(record) == Num(0)

extractWebhookId(record) ==
    IF record.t = "obj" THEN toNumericId(Prop(record.v, "id"))
    ELSE toNumericId(record)

NoWebhookIdError ==
    [message |-> "Leadspicker did not return a webhook ID.", httpCode |-> [t |-> "absent"]]

\* 'httpCode' in error ? error.httpCode : undefined
HttpCodeOf(error) == IF error.httpCode.t = "absent" THEN Undef ELSE error.httpCode

\* Mutant: no failure of the DELETE is tolerated.
Tolerated_Never(error) == FALSE

\* A delete hook that swallows every error.
Tolerated_Always(error) == TRUE

\* The catch block of delete: httpCode !== '404' rethrows.
Tolerated(error) == HttpCodeOf(error) = [t |-> "str", v |-> "404"]

MaxWebhookId == 3
MaxHookCalls == 3

NotFound == CHOOSE e \in TransportErrors : e.httpCode = [t |-> "str", v |-> "404"]

\* What the gateway can produce for DELETE /webhooks/{id}.
DeleteOutcomes(id) ==
    (IF id \in vendor THEN {[kind |-> "ok"]} ELSE {[kind |-> "error", error |-> NotFound]})
    \cup { [kind |-> "error", error |-> e] : e \in TransportErrors \ {NotFound} }

\* What the vendor can answer to POST /webhooks for the new webhook n.
CreateBodies(n) ==
    { MkObj([id |-> Num(n)]),
      MkObj([id |-> Str(<<Digits[n + 1]>>)]),
      MkObj([name |-> Str(<<"n", "8", "n">>)]),
      Null }

NoRequest == [method |-> "none"]

PostWebhooks == [method |-> "POST", path |-> "/webhooks"]

DeleteWebhook(id) == [method |-> "DELETE", path |-> "/webhooks/", id |-> id]

\* The create hook.
Create ==
    /\ wh_calls < MaxHookCalls
    /\ wh_calls' = wh_calls + 1
    /\ \/ \E n \in (1..MaxWebhookId) \ issued : \E b \in CreateBodies(n) :
            /\ vendor' = vendor \cup {n}
            /\ issued' = issued \cup {n}
            /\ wh_last' = [hook |-> "create", request |-> PostWebhooks,
                           outcome |-> [kind |-> "ok", body |-> b]]
            /\ IF extractWebhookId(b) = Undef
               THEN /\ wh_result' = [kind |-> "error", error |-> NoWebhookIdError]
                    /\ UNCHANGED staticData
               ELSE /\ staticData' = [k \in DOMAIN staticData \cup {"webhookId"} |->
                                         IF k = "webhookId" THEN extractWebhookId(b)
                                         ELSE staticData[k]]
                    /\ wh_result' = [kind |-> "value", value |-> TRUE]
       \/ \E e \in TransportErrors \ {NotFound} :
            /\ wh_last' = [hook |-> "create", request |-> PostWebhooks,
                           outcome |-> [kind |-> "error", error |-> e]]
            /\ wh_result' = [kind |-> "error", error |-> e]
            /\ UNCHANGED <<staticData, vendor, issued>>
    /\ UNCHANGED <<gw_vars, fl_vars, cat_vars, sp_vars, ag_vars, pl_vars, vd_vars, ce_vars>>

\* The delete hook.
Delete ==
    /\ wh_calls < MaxHookCalls
    /\ wh_calls' = wh_calls + 1
    /\ LET webhookId == Prop(staticData, "webhookId") IN
       IF webhookId = Undef
       THEN /\ wh_result' = [kind |-> "value", value |-> TRUE]
            /\ wh_last' = [hook |-> "delete", request |-> NoRequest, outcome |-> [kind |-> "none"]]
            /\ UNCHANGED <<staticData, vendor>>
       ELSE \E o \in DeleteOutcomes(webhookId.v) :
            /\ wh_last' = [hook |-> "delete", request |-> DeleteWebhook(webhookId.v),
                           outcome |-> o]
            /\ vendor' = IF o.kind = "ok" THEN vendor \ {webhookId.v} ELSE vendor
            /\ IF o.kind = "ok" \/ Tolerated(o.error)
               THEN /\ staticData' = Without(staticData, "webhookId")
                    /\ wh_result' = [kind |-> "value", value |-> TRUE]
               ELSE /\ wh_result' = [kind |-> "error", error |-> o.error]
                    /\ UNCHANGED staticData
    /\ UNCHANGED issued
    /\ UNCHANGED <<gw_vars, fl_vars, cat_vars, sp_vars, ag_vars, pl_vars, vd_vars, ce_vars>>

\* The webhook is removed at Leadspicker behind the node's back.
RemovedAtVendor ==
    /\ \E n \in vendor : vendor' = vendor \ {n}
    /\ UNCHANGED <<wh_calls, staticData, issued, wh_last, wh_result>>
    /\ UNCHANGED <<gw_vars, fl_vars, cat_vars, sp_vars, ag_vars, pl_vars, vd_vars, ce_vars>>

\* No hook has run: nothing stored, nothing registered.
NoHook == [hook |-> "none", request |-> NoRequest, outcome |-> [kind |-> "none"]]

WhIdle ==
    /\ wh_calls = 0
    /\ staticData = <<>>
    /\ vendor = {}
    /\ issued = {}
    /\ wh_last = NoHook
    /\ wh_result = NoResult

(***************************************************************************)
(* The node's operations on one input item: the reference and identifier   *)
(* checks of handleLeadOperations, handleCampaignOperations and            *)
(* handleGlobalExclusionListOperations, and the gateway request each       *)
(* operation issues once its checks pass.                                  *)
(***************************************************************************)
MANUAL_ID_OPTION == Str(<<"_", "_", "m", "a", "n", "u", "a", "l", "_", "_">>)

\* A toNumericId that takes every string for a number.
Leadspicker_toNumericId_AnyString(value) ==
    IF value.t = "num" THEN value
    ELSE IF value.t = "str" THEN Num(0)
    ELSE Undef

\* Leadspicker.toNumericId, the node's own copy.
Leadspicker_toNumericId(value) ==
    IF value.t = "num" THEN value
    ELSE IF value.t = "str" /\ Trim(value.v) # <<>>
         THEN (IF ToJsNumber(value).t = "nan" THEN Undef ELSE ToJsNumber(value))
    ELSE Undef

NodeOperationError(message) == [message |-> message, httpCode |-> [t |-> "absent"]]

PleaseSelect(fieldName) ==
    IF fieldName = "project" THEN "Please select a project." ELSE "Please select a person."

PleaseSelectValid(fieldName) ==
    IF fieldName = "project" THEN "Please select a valid project."
    ELSE "Please select a valid person."

getNodeParameter(params, name) == IF name \in DOMAIN params THEN params[name] ELSE Undef

getIdOrThrow(value, fieldName) ==
    LET id == Leadspicker_toNumericId(value) IN
    IF id = Undef
    THEN [kind |-> "error", error |-> NodeOperationError(PleaseSelectValid(fieldName))]
    ELSE [kind |-> "value", value |-> id]

getIdFromOptionOrManual(params, optionName, manualName, fieldName) ==
    LET selection == getNodeParameter(params, optionName) IN
    IF selection = Undef \/ selection = Null \/ selection = Str(<<>>)
    THEN [kind |-> "error", error |-> NodeOperationError(PleaseSelect(fieldName))]
    ELSE IF selection = MANUAL_ID_OPTION
    THEN getIdOrThrow(getNodeParameter(params, manualName), fieldName)
    ELSE getIdOrThrow(selection, fieldName)

\* typeof blacklistEntry === 'string' ? blacklistEntry.trim() : ''
trimmedEntry(blacklistEntry) ==
    IF blacklistEntry.t = "str" THEN Str(Trim(blacklistEntry.v)) ELSE Str(<<>>)

EntryMissing(op) ==
    CASE op = "addToExclusionList" ->
           "Please provide a LinkedIn URL, email, domain, or company profile to blacklist."
      [] op = "removeFromExclusionList" ->
           "Please provide a LinkedIn URL, email, domain, or company profile to remove from the blacklist."
      [] op = "addLead" ->
           "Please provide a LinkedIn URL, email, domain, or company profile to add to the global exclusion list."
      [] OTHER ->
           "Please provide a LinkedIn URL, email, domain, or company profile to remove from the global exclusion list."

\* A gateway request: method, path (with the reference it embeds), body, query.
ApiRequest(method, path, id, body, qs) ==
    [method |-> method, path |-> path, id |-> id, body |-> body, qs |-> qs]

\* What the gateway can produce for one request of an operation.
ResponseBodies == PersonTemplates \cup {Null}

GatewayOutcomes ==
    { [kind |-> "ok", body |-> b] : b \in ResponseBodies }
    \cup { [kind |-> "error", error |-> e] : e \in TransportErrors }

\* The list returned by getExclusionList when the campaign has none.
EmptyExclusionList ==
    Arr(<<Obj([k \in {"matched_emails_count", "updated", "linkedins",
                      "company_linkedins", "emails", "domains"} |->
                 CASE k = "matched_emails_count" -> Num(0)
                   [] k = "updated" -> Null
                   [] OTHER -> Arr(<<>>)])>>)

\* The catch block of getExclusionList: a 404, as a string or a number, is
\* answered by the empty list.
ExclusionListMissing(error) ==
    HttpCodeOf(error) \in {[t |-> "str", v |-> "404"], [t |-> "num", v |-> 404]}

\* An operation stops at a failed check: nothing is sent.
Rejects(error) ==
    /\ vd_pc' = "failed"
    /\ vd_result' = [kind |-> "error", error |-> error]
    /\ UNCHANGED vd_requests

\* An operation sends its one request and turns the outcome into its result.
Sends(request, outcome, value) ==
    /\ vd_requests' = Append(vd_requests, request)
    /\ IF outcome.kind = "ok"
       THEN vd_pc' = "done" /\ vd_result' = [kind |-> "value", body |-> value]
       ELSE vd_pc' = "failed" /\ vd_result' = [kind |-> "error", error |-> outcome.error]

VdFrame ==
    /\ UNCHANGED <<vd_op, vd_params>>
    /\ UNCHANGED <<gw_vars, fl_vars, cat_vars, sp_vars, ag_vars, pl_vars, wh_vars, ce_vars>>

\* The servers a lead list started by an operation can meet.
ListServers ==
    { srv \in LeadServers : Len(srv.sizes) <= 1 /\ srv.count = Undef /\ srv.shape = "items" }

\* The parameter values an item can carry for a reference, its manual
\* variant and an identifier text.
Selections ==
    { Undef, Null, Str(<<>>), MANUAL_ID_OPTION, Num(7), Str(<<"7">>), Str(<<" ", "7">>),
      Str(<<"a">>), Str(<<" ">>), NaN }

ManualValues == { Undef, Str(<<>>), Num(8), Str(<<"8">>), Str(<<"x">>), Str(<<" ">>) }

EntryValues == { Undef, Str(<<>>), Str(<<" ">>), Str(<<" ", "a">>), Str(<<"a">>), Num(5) }

LeadFields ==
    { Params(Str(<<>>), Str(<<"f">>), Str(<<"l">>), Str(<<"e">>), Str(<<>>), NoFields),
      Params(Str(<<"a", " ", "b">>), Str(<<>>), Str(<<>>), Str(<<>>), Str(<<>>), NoFields) }

WithParams(f, g) == [k \in (DOMAIN f) \cup (DOMAIN g) |-> IF k \in DOMAIN f THEN f[k] ELSE g[k]]

IdParams(optionName, manualName) ==
    { [k \in {optionName, manualName} |-> IF k = optionName THEN s ELSE m] :
         s \in Selections, m \in ManualValues }

EntryParams(entryName) == { [k \in {entryName} |-> e] : e \in EntryValues }

ParamsOf(op) ==
    CASE op \in {"leadCreate"} ->
           { WithParams(p, l) : p \in IdParams("projectId", "projectIdManual"), l \in LeadFields }
      [] op \in {"leadUpdate"} ->
           { WithParams(p, l) : p \in IdParams("personId", "personIdManual"), l \in LeadFields }
      [] op \in {"leadGet", "leadDelete"} -> IdParams("personId", "personIdManual")
      [] op = "leadList" -> IdParams("projectId", "projectIdManual")
      [] op = "campaignDelete" -> IdParams("projectDeleteId", "projectDeleteIdManual")
      [] op = "getExclusionList" -> IdParams("projectBlacklistId", "projectBlacklistIdManual")
      [] op \in {"addToExclusionList", "removeFromExclusionList"} ->
           { WithParams(p, e) : p \in IdParams("projectBlacklistId", "projectBlacklistIdManual"),
                                e \in EntryParams("blacklistEntry") }
      [] OTHER -> EntryParams("globalBlacklistEntry")

Operations ==
    { "leadCreate", "leadUpdate", "leadGet", "leadDelete", "leadList", "campaignDelete",
      "addToExclusionList", "removeFromExclusionList", "getExclusionList",
      "addLead", "removeLead" }

\* case 'create' of handleLeadOperations.
LeadCreate ==
    /\ vd_pc = "start" /\ vd_op = "leadCreate"
    /\ LET body == buildLeadPayload(vd_params)
           id == getIdFromOptionOrManual(vd_params, "projectId", "projectIdManual", "project")
       IN  IF id.kind = "error" THEN Rejects(id.error)
           ELSE \E o \in GatewayOutcomes :
                  Sends(ApiRequest("POST", "/persons", Undef,
                                   Obj(Put(body, "project_id", id.value)), Undef),
                        o, IF o.kind = "ok" THEN flattenLeadPayload(o.body) ELSE Undef)
    /\ VdFrame

\* case 'update' of handleLeadOperations.
LeadUpdate ==
    /\ vd_pc = "start" /\ vd_op = "leadUpdate"
    /\ LET body == buildLeadPayload(vd_params)
           leadId == getIdFromOptionOrManual(vd_params, "personId", "personIdManual", "person")
       IN  IF leadId.kind = "error" THEN Rejects(leadId.error)
           ELSE \E o \in GatewayOutcomes :
                  Sends(ApiRequest("PATCH", "/persons/{id}", leadId.value, Obj(body), Undef),
                        o, IF o.kind = "ok" THEN flattenLeadPayload(o.body) ELSE Undef)
    /\ VdFrame

\* case 'get' of handleLeadOperations.
LeadGet ==
    /\ vd_pc = "start" /\ vd_op = "leadGet"
    /\ LET leadId == getIdFromOptionOrManual(vd_params, "personId", "personIdManual", "person")
       IN  IF leadId.kind = "error" THEN Rejects(leadId.error)
           ELSE \E o \in GatewayOutcomes :
                  Sends(ApiRequest("GET", "/persons/{id}", leadId.value, Undef, Undef),
                        o, IF o.kind = "ok" THEN flattenLeadPayload(o.body) ELSE Undef)
    /\ VdFrame

\* case 'delete' of handleLeadOperations.
LeadDelete ==
    /\ vd_pc = "start" /\ vd_op = "leadDelete"
    /\ LET leadId == getIdFromOptionOrManual(vd_params, "personId", "personIdManual", "person")
       IN  IF leadId.kind = "error" THEN Rejects(leadId.error)
           ELSE \E o \in GatewayOutcomes :
                  Sends(ApiRequest("DELETE", "/persons/{id}", leadId.value, Undef, Undef),
                        o, IF o.kind = "ok" THEN o.body ELSE Undef)
    /\ VdFrame

\* case 'list' of handleLeadOperations up to its page loop: the campaign
\* reference is resolved, then the loop (LeadListPage) starts at page 1.
LeadList ==
    /\ vd_pc = "start" /\ vd_op = "leadList"
    /\ LET campaignId == getIdFromOptionOrManual(vd_params, "projectId", "projectIdManual",
                                                 "project")
       IN  IF campaignId.kind = "error"
           THEN Rejects(campaignId.error) /\ UNCHANGED ag_vars
           ELSE /\ vd_pc' = "listing"
                /\ ag_pc' = "loop"
                /\ ag_op' = "leadList"
                /\ server' \in ListServers
                /\ position' = StartPosition("leadList")
                /\ UNCHANGED <<iteration, records, requests, ag_result, vd_requests, vd_result>>
    /\ UNCHANGED <<vd_op, vd_params>>
    /\ UNCHANGED <<gw_vars, fl_vars, cat_vars, sp_vars, pl_vars, wh_vars, ce_vars>>

\* The page loop of case 'list' has ended: its result is the operation's.
LeadListEnds ==
    /\ vd_pc = "listing" /\ ag_pc \in {"done", "failed"}
    /\ vd_pc' = ag_pc
    /\ vd_result' = ag_result
    /\ vd_requests' = vd_requests \o [i \in 1..Len(requests) |->
                          ApiRequest("GET", "/persons", Undef, Undef, requests[i])]
    /\ VdFrame

\* case 'delete' of handleCampaignOperations.
CampaignDelete ==
    /\ vd_pc = "start" /\ vd_op = "campaignDelete"
    /\ LET campaignId == getIdFromOptionOrManual(vd_params, "projectDeleteId",
                                                 "projectDeleteIdManual", "project")
       IN  IF campaignId.kind = "error" THEN Rejects(campaignId.error)
           ELSE \E o \in GatewayOutcomes :
                  Sends(ApiRequest("DELETE", "/projects/{id}", campaignId.value, Undef, Undef),
                        o, IF o.kind = "ok" THEN o.body ELSE Undef)
    /\ VdFrame

\* case 'addToExclusionList' of handleCampaignOperations.
AddToExclusionList ==
    /\ vd_pc = "start" /\ vd_op = "addToExclusionList"
    /\ LET campaignId == getIdFromOptionOrManual(vd_params, "projectBlacklistId",
                                                 "projectBlacklistIdManual", "project")
           entry == trimmedEntry(getNodeParameter(vd_params, "blacklistEntry"))
       IN  IF campaignId.kind = "error" THEN Rejects(campaignId.error)
           ELSE IF ~Truthy(entry) THEN Rejects(NodeOperationError(EntryMissing(vd_op)))
           ELSE \E o \in GatewayOutcomes :
                  Sends(ApiRequest("PUT", "/projects/{id}/blacklist-text", campaignId.value,
                                   Obj([k \in {"data"} |-> entry]),
                                   Obj([k \in {"append"} |-> [t |-> "bool", v |-> TRUE]])),
                        o, IF o.kind = "ok" THEN o.body ELSE Undef)
    /\ VdFrame

\* case 'removeFromExclusionList' of handleCampaignOperations.
RemoveFromExclusionList ==
    /\ vd_pc = "start" /\ vd_op = "removeFromExclusionList"
    /\ LET campaignId == getIdFromOptionOrManual(vd_params, "projectBlacklistId",
                                                 "projectBlacklistIdManual", "project")
           entry == trimmedEntry(getNodeParameter(vd_params, "blacklistEntry"))
       IN  IF campaignId.kind = "error" THEN Rejects(campaignId.error)
           ELSE IF ~Truthy(entry) THEN Rejects(NodeOperationError(EntryMissing(vd_op)))
           ELSE \E o \in GatewayOutcomes :
                  Sends(ApiRequest("DELETE", "/projects/{id}/blacklist-text", campaignId.value,
                                   Obj(<<>>), Obj([k \in {"identifier"} |-> entry])),
                        o, IF o.kind = "ok" THEN o.body ELSE Undef)
    /\ VdFrame

\* case 'getExclusionList' of handleCampaignOperations.
GetExclusionList ==
    /\ vd_pc = "start" /\ vd_op = "getExclusionList"
    /\ LET campaignId == getIdFromOptionOrManual(vd_params, "projectBlacklistId",
                                                 "projectBlacklistIdManual", "project")
       IN  IF campaignId.kind = "error" THEN Rejects(campaignId.error)
           ELSE \E o \in GatewayOutcomes :
                  Sends(ApiRequest("GET", "/projects/{id}/blacklist-text", campaignId.value,
                                   Undef, Undef),
                        IF o.kind = "error" /\ ExclusionListMissing(o.error)
                        THEN [kind |-> "ok", body |-> EmptyExclusionList] ELSE o,
                        IF o.kind = "ok" THEN o.body ELSE EmptyExclusionList)
    /\ VdFrame

\* case 'addLead' of handleGlobalExclusionListOperations.
GlobalAddLead ==
    /\ vd_pc = "start" /\ vd_op = "addLead"
    /\ LET entry == trimmedEntry(getNodeParameter(vd_params, "globalBlacklistEntry"))
       IN  IF ~Truthy(entry) THEN Rejects(NodeOperationError(EntryMissing(vd_op)))
           ELSE \E o \in GatewayOutcomes :
                  Sends(ApiRequest("POST", "/global-blacklist-add", Undef,
                                   Obj([k \in {"data"} |-> Arr(<<entry>>)]), Undef),
                        o, Arr(<<>>))
    /\ VdFrame

\* case 'removeLead' of handleGlobalExclusionListOperations.
GlobalRemoveLead ==
    /\ vd_pc = "start" /\ vd_op = "removeLead"
    /\ LET entry == trimmedEntry(getNodeParameter(vd_params, "globalBlacklistEntry"))
       IN  IF ~Truthy(entry) THEN Rejects(NodeOperationError(EntryMissing(vd_op)))
           ELSE \E o \in GatewayOutcomes :
                  Sends(ApiRequest("DELETE", "/global-blacklist", Undef, Obj(<<>>),
                                   Obj([k \in {"identifier"} |-> entry])),
                        o, Arr(<<>>))
    /\ VdFrame

VdInit ==
    /\ vd_pc = "start"
    /\ vd_op \in Operations
    /\ vd_params \in ParamsOf(vd_op)
    /\ vd_requests = <<>>
    /\ vd_result = NoResult

VdIdle ==
    /\ vd_pc = "idle"
    /\ vd_op = "none"
    /\ vd_params = <<>>
    /\ vd_requests = <<>>
    /\ vd_result = NoResult

(***************************************************************************)
(* The trigger's checkExists hook: the webhook list of the vendor is       *)
(* searched for a webhook of this node.                                    *)
(***************************************************************************)
\* getProjectIdIfSelected: the selected project, undefined for all projects.
getProjectIdIfSelected(params) ==
    LET selection == getNodeParameter(params, "projectId") IN
    IF selection = MANUAL_ID_OPTION
    THEN LET id == toNumericId(getNodeParameter(params, "projectIdManual")) IN
         IF id = Undef
         THEN [kind |-> "error", error |-> NodeOperationError("Please enter a valid project ID.")]
         ELSE [kind |-> "value", value |-> id]
    ELSE IF selection = Undef \/ selection = Null \/ selection = Str(<<>>)
    THEN [kind |-> "value", value |-> Undef]
    ELSE LET id == toNumericId(selection) IN
         IF id = Undef
         THEN [kind |-> "error", error |-> NodeOperationError("Please select a project.")]
         ELSE [kind |-> "value", value |-> id]

getSelectedFeature(params) == getNodeParameter(params, "feature")

\* A list normalisation that only knows the bare array.
normalizeWebhookList_ArrayOnly(payload) ==
    IF payload.t = "arr" THEN payload.v ELSE <<>>

normalizeWebhookList(payload) ==
    IF payload.t = "arr" THEN payload.v
    ELSE IF payload.t = "obj" /\ Prop(payload.v, "results").t = "arr"
    THEN Prop(payload.v, "results").v
    ELSE IF payload.t = "obj" /\ Prop(payload.v, "items").t = "arr"
    THEN Prop(payload.v, "items").v
    ELSE <<>>

\* The predicate of availableWebhooks.find.
EntryMatches(entry, webhookUrl, feature, projectId) ==
    LET url == Prop(entry.v, "url")
        features == Prop(entry.v, "features")
        project_ids == Prop(entry.v, "project_ids")
    IN  IF url.t # "str" \/ url # webhookUrl THEN FALSE
        ELSE IF features.t # "arr" \/ ~(\E i \in 1..Len(features.v) : features.v[i] = feature)
        THEN FALSE
        ELSE IF projectId = Undef
        THEN project_ids.t # "arr" \/ Len(project_ids.v) = 0
        ELSE IF project_ids.t # "arr" THEN FALSE
        ELSE \E i \in 1..Len(project_ids.v) : toNumericId(project_ids.v[i]) = projectId

\* Array.prototype.find: the first element that satisfies the predicate.
FirstMatch(list, webhookUrl, feature, projectId) ==
    LET hits == { i \in 1..Len(list) : EntryMatches(list[i], webhookUrl, feature, projectId) }
    IN  IF hits = {} THEN Undef
        ELSE list[CHOOSE i \in hits : \A j \in hits : i <= j]

GetWebhooks == [method |-> "GET", path |-> "/webhooks"]

\* The checkExists hook.
CheckExists ==
    /\ ce_pc = "start"
    /\ LET webhookUrl == getNodeParameter(ce_params, "webhookUrl")
           feature == getSelectedFeature(ce_params)
           projectId == getProjectIdIfSelected(ce_params)
       IN  IF projectId.kind = "error"
           THEN /\ ce_pc' = "failed"
                /\ ce_result' = projectId
                /\ UNCHANGED <<staticData, wh_last>>
           ELSE \/ \E e \in TransportErrors :
                     /\ ce_pc' = "failed"
                     /\ ce_result' = [kind |-> "error", error |-> e]
                     /\ wh_last' = [hook |-> "checkExists", request |-> GetWebhooks,
                                    outcome |-> [kind |-> "error", error |-> e]]
                     /\ UNCHANGED staticData
                \/ LET match == FirstMatch(normalizeWebhookList(ce_response), webhookUrl,
                                           feature, projectId.value)
                   IN  /\ ce_pc' = "returned"
                       /\ wh_last' = [hook |-> "checkExists", request |-> GetWebhooks,
                                      outcome |-> [kind |-> "ok", body |-> ce_response]]
                       /\ IF match = Undef
                          THEN /\ ce_result' = [kind |-> "value", value |-> FALSE]
                               /\ UNCHANGED staticData
                          ELSE /\ ce_result' = [kind |-> "value", value |-> TRUE]
                               /\ staticData' =
                                    IF extractWebhookId(match) # Undef
                                    THEN Put(staticData, "webhookId", extractWebhookId(match))
                                    ELSE staticData
    /\ UNCHANGED <<ce_params, ce_response>>
    /\ UNCHANGED <<wh_calls, vendor, issued, wh_result>>
    /\ UNCHANGED <<gw_vars, fl_vars, cat_vars, sp_vars, ag_vars, pl_vars, vd_vars>>

\* The URL of this node's webhook, another one, and the events.
ThisUrl == Str("https://n8n.example/webhook/this")

OtherUrl == Str("https://n8n.example/webhook/other")

PersonAddedFeature == Str("person_added")

EmailReplyFeature == Str("email_reply")

\* The webhooks the vendor can list; the first of two carries another id
\* than the second.
WebhookEntries(ids) ==
    { MkObj([url |-> u, features |-> f, project_ids |-> p, id |-> i]) :
        u \in {ThisUrl, OtherUrl},
        f \in {Arr(<<PersonAddedFeature>>), Arr(<<EmailReplyFeature, PersonAddedFeature>>),
               Arr(<<EmailReplyFeature>>)},
        p \in {Null, Arr(<<>>), Arr(<<Num(5)>>), Arr(<<Num(6), Str(<<"5">>)>>)},
        i \in ids }

WebhookLists ==
    {<<>>}
    \cup { <<a>> : a \in WebhookEntries({Num(1), Str(<<"2">>), Absent}) }
    \cup { <<a, b>> : a \in WebhookEntries({Num(1), Absent}),
                      b \in { e \in WebhookEntries({Num(2)}) : Prop(e.v, "url") = ThisUrl } }

\* The shapes GET /webhooks can answer in.
WebhookResponses ==
    { Arr(l) : l \in WebhookLists }
    \cup { MkObj([results |-> Arr(l)]) : l \in WebhookLists }
    \cup { MkObj([items |-> Arr(l)]) : l \in { w \in WebhookLists : Len(w) <= 1 } }
    \cup { Null, MkObj([data |-> Arr(<<>>)]) }

TriggerParams ==
    [webhookUrl : {ThisUrl},
     feature : {PersonAddedFeature},
     projectId : {Str(<<>>), MANUAL_ID_OPTION, Str(<<"5">>), Str(<<"a">>)},
     projectIdManual : {Num(5), Str(<<>>)}]

CeInit ==
    /\ ce_pc = "start"
    /\ ce_params \in TriggerParams
    /\ ce_response \in WebhookResponses
    /\ ce_result = NoResult

CeIdle ==
    /\ ce_pc = "idle"
    /\ ce_params = <<>>
    /\ ce_response = Undef
    /\ ce_result = NoResult

Init == GwInit /\ FlIdle /\ CatIdle /\ SpIdle /\ AgIdle /\ PlIdle /\ WhIdle /\ VdIdle /\ CeIdle

Next == Request \/ HandleResponse \/ ThrottleWake \/ HandleError \/ RetryWake

Spec == Init /\ [][Next]_vars

GwIdle ==
    /\ gw_pc = "idle"
    /\ attempt = 0
    /\ response = NoResponse
    /\ calls = 0
    /\ sleeps = <<>>
    /\ log = <<>>
    /\ result = NoResult

FlattenerInit == GwIdle /\ FlInit /\ CatIdle /\ SpIdle /\ AgIdle /\ PlIdle /\ WhIdle /\ VdIdle /\ CeIdle

FlattenerNext == Flatten \/ FlattenAgain \/ PersonAdded

FlattenerSpec == FlattenerInit /\ [][FlattenerNext]_vars

CategorizerInit == GwIdle /\ FlIdle /\ CatInit /\ SpIdle /\ AgIdle /\ PlIdle /\ WhIdle /\ VdIdle /\ CeIdle

CategorizerNext == Categorize

CategorizerSpec == CategorizerInit /\ [][CategorizerNext]_vars

SplitterInit == GwIdle /\ FlIdle /\ CatIdle /\ SpInit /\ AgIdle /\ PlIdle /\ WhIdle /\ VdIdle /\ CeIdle

SplitterNext == Split

SplitterSpec == SplitterInit /\ [][SplitterNext]_vars

AggregatorInit == GwIdle /\ FlIdle /\ CatIdle /\ SpIdle /\ AgInit /\ PlIdle /\ WhIdle /\ VdIdle /\ CeIdle

AggregatorNext ==
    \/ LeadListPage
    \/ ReplyListPage
    \/ SearchPostReactorsPage
    \/ ProfilesPostReactorsPage
    \/ GatewayThrows

AggregatorSpec == AggregatorInit /\ [][AggregatorNext]_vars

PayloadInit == GwIdle /\ FlIdle /\ CatIdle /\ SpIdle /\ AgIdle /\ PlInit /\ WhIdle /\ VdIdle /\ CeIdle

PayloadNext == BuildLeadPayload

PayloadSpec == PayloadInit /\ [][PayloadNext]_vars

WebhookInit == GwIdle /\ FlIdle /\ CatIdle /\ SpIdle /\ AgIdle /\ PlIdle /\ WhIdle /\ VdIdle /\ CeIdle

WebhookNext == Create \/ Delete \/ RemovedAtVendor

WebhookSpec == WebhookInit /\ [][WebhookNext]_vars

ValidationInit == GwIdle /\ FlIdle /\ CatIdle /\ SpIdle /\ AgIdle /\ PlIdle /\ WhIdle /\ VdInit /\ CeIdle

ValidationNext ==
    \/ LeadCreate
    \/ LeadUpdate
    \/ LeadGet
    \/ LeadDelete
    \/ LeadList
    \/ LeadListPage
    \/ GatewayThrows
    \/ LeadListEnds
    \/ CampaignDelete
    \/ AddToExclusionList
    \/ RemoveFromExclusionList
    \/ GetExclusionList
    \/ GlobalAddLead
    \/ GlobalRemoveLead

ValidationSpec == ValidationInit /\ [][ValidationNext]_vars

\* The static data before checkExists: nothing stored, or the id of an
\* earlier registration.
ExistsInit ==
    /\ GwIdle /\ FlIdle /\ CatIdle /\ SpIdle /\ AgIdle /\ PlIdle /\ VdIdle /\ CeInit
    /\ wh_calls = 0
    /\ staticData \in {<<>>, [k \in {"webhookId"} |-> Num(9)]}
    /\ vendor = {}
    /\ issued = {}
    /\ wh_last = NoHook
    /\ wh_result = NoResult

ExistsNext == CheckExists

ExistsSpec == ExistsInit /\ [][ExistsNext]_vars

(***************************************************************************)
(* Claims about the gateway (specification Spec)                            *)
(***************************************************************************)
Status429 == [t |-> "str", v |-> "429"]

Is429Failure(r) == ~r.ok /\ r.error.httpCode = Status429

CountOf(seq, x) == Cardinality({i \in 1..Len(seq) : seq[i] = x})

\* C1: when every one of the 6 attempts of a call fails with status "429", the
\* call fails with the "exceeded retry attempts" error, not the raw 429 error.
C1_ExhaustionRaisesExceeded ==
    (/\ gw_pc = "failed"
     /\ Len(log) = 6
     /\ \A i \in 1..Len(log) : Is429Failure(log[i]))
    => result = [kind |-> "error", error |-> ExceededError]

\* C2: a 429 failure with attempts remaining is never surfaced: the gateway
\* sleeps 10000 ms before every further attempt, and a call that returns has
\* seen only 429 failures before its one successful response, whose body it
\* returns.
C2_ReactiveRetry ==
    LET n == Len(log) IN
    /\ (gw_pc = "failed" /\ n < 6) => ~Is429Failure(log[n])
    /\ CountOf(sleeps, 10000) = (IF gw_pc = "loop" THEN calls ELSE calls - 1)
    /\ \A i \in 1..Len(sleeps) : sleeps[i] = 10000 \/ (i = Len(sleeps) /\ gw_pc = "done")
    /\ gw_pc = "done" =>
          /\ log[n].ok
          /\ result = [kind |-> "value", body |-> log[n].body]
          /\ \A i \in 1..(n - 1) : Is429Failure(log[i])

C2_Witness ==
    /\ gw_pc = "done"
    /\ Len(log) = 2
    /\ Is429Failure(log[1])
    /\ sleeps = <<10000>>
    /\ result = [kind |-> "value", body |-> log[2].body]

\* C3: once an attempt has failed with an error whose status is not "429", the
\* call has failed with that very error, no sleep followed the failure and no
\* further transport call was made.
C3_NonRetryableRethrown ==
    LET n == Len(log) IN
    (n > 0 /\ ~log[n].ok /\ log[n].error.httpCode # Status429 /\ gw_pc # "catch")
    => /\ gw_pc = "failed"
       /\ result = [kind |-> "error", error |-> log[n].error]
       /\ calls = n
       /\ Len(sleeps) = n - 1
       /\ \A i \in 1..Len(sleeps) : sleeps[i] = 10000

C3_Witness ==
    /\ gw_pc = "failed"
    /\ Len(log) = 2
    /\ log[2].error.httpCode = [t |-> "str", v |-> "500"]
    /\ result = [kind |-> "error", error |-> log[2].error]
    /\ sleeps = <<10000>>

\* A header carrying a plain decimal reading below / not below the threshold.
ReadsBelowTen(h) == h \in {Str(<<"5">>), Str(<<"9">>)}
ReadsTenOrMore(h) == h \in {Str(<<"1", "0">>), Str(<<"1", "5">>)}

\* C4: a call that returned a response one of whose two rate-limit headers
\* reads below 10 slept 1000 ms exactly once, as its last sleep, returned that
\* response's body and made no transport call beyond the one that succeeded,
\* the throttle leaving the attempt counter alone; with both headers missing
\* or both reading 10 or more it returned without a 1000 ms sleep.
C4_ProactiveThrottle ==
    gw_pc = "done" =>
        LET n == Len(log)
            h == IF log[n].headers = Undef THEN EmptyHeaders ELSE log[n].headers
        IN  /\ (ReadsBelowTen(h.minute) \/ ReadsBelowTen(h.day)) =>
                  /\ CountOf(sleeps, 1000) = 1
                  /\ sleeps[Len(sleeps)] = 1000
                  /\ result = [kind |-> "value", body |-> log[n].body]
                  /\ calls = n
                  /\ attempt = n - 1
            /\ (\/ (h.minute = Undef /\ h.day = Undef)
                \/ (ReadsTenOrMore(h.minute) /\ ReadsTenOrMore(h.day))) =>
                  CountOf(sleeps, 1000) = 0

C4_Witness ==
    /\ gw_pc = "done"
    /\ Len(log) = 1
    /\ log[1].headers # Undef
    /\ log[1].headers.minute = Str(<<"5">>)
    /\ log[1].headers.day = Undef
    /\ sleeps = <<1000>>
    /\ result = [kind |-> "value", body |-> log[1].body]

(***************************************************************************)
(* Claims about the flattener (specification FlattenerSpec)                 *)
(***************************************************************************)
DetailKeys == {"contact_data", "person_data"}

MetadataKeys == {"created", "id", "enrichment_status", "validation_status"}

\* An attribute-value wrapper as the specification words it.
IsWrapper(x) ==
    /\ x.t = "obj"
    /\ "value" \in DOMAIN x.v
    /\ (DOMAIN x.v) \ {"value"} \subseteq MetadataKeys

\* A meaningful value as the specification words it.
IsMeaningful(x) ==
    /\ x.t \notin {"undef", "null"}
    /\ x.t = "str" => \E i \in 1..Len(x.v) : x.v[i] # " "

RECURSIVE HasDetailKey(_)
HasDetailKey(x) ==
    IF x.t = "arr" THEN \E i \in 1..Len(x.v) : HasDetailKey(x.v[i])
    ELSE IF x.t = "obj"
         THEN \/ (DOMAIN x.v) \cap DetailKeys # {}
              \/ \E k \in DOMAIN x.v : HasDetailKey(x.v[k])
    ELSE FALSE

RECURSIVE HasWrapper(_)
HasWrapper(x) ==
    IF x.t = "arr" THEN \E i \in 1..Len(x.v) : HasWrapper(x.v[i])
    ELSE IF x.t = "obj"
         THEN IsWrapper(x) \/ \E k \in DOMAIN x.v : HasWrapper(x.v[k])
    ELSE FALSE

\* C5: flattening is idempotent: flattening the flattened record changes
\* nothing.
C5_FlattenIdempotent ==
    fl_pc = "reflattened" => fl_again = fl_out

\* C6: the flattened record has no contact_data or person_data key and no
\* attribute-value wrapper at any depth.
C6_NoDetailKeyNoWrapper ==
    fl_pc \in {"flattened", "reflattened"} => ~HasDetailKey(fl_out) /\ ~HasWrapper(fl_out)

\* C7: for a plain (non-wrapper) object and each of its keys k, own or lifted,
\* the flattened object holds under k the (flattened) value of the first of
\* the object's own field, contact_data[k] and person_data[k] that is
\* meaningful, whenever one of them is; {foo:"x", contact_data:{foo:"y",
\* bar:"z"}} gives {foo:"x", bar:"z"}.
C7_FirstSeenWins ==
    (fl_pc \in {"flattened", "reflattened"} /\ fl_in.t = "obj" /\ ~IsWrapper(fl_in)) =>
        LET top == fl_in.v
            cd == Prop(top, "contact_data")
            pd == Prop(top, "person_data")
            cdKeys == IF cd.t = "obj" THEN DOMAIN cd.v ELSE {}
            pdKeys == IF pd.t = "obj" THEN DOMAIN pd.v ELSE {}
            sources(k) == << Prop(top, k),
                             IF k \in cdKeys THEN cd.v[k] ELSE Undef,
                             IF k \in pdKeys THEN pd.v[k] ELSE Undef >>
            keys == ((DOMAIN top) \cup cdKeys \cup pdKeys) \ DetailKeys
        IN  /\ fl_out.t = "obj"
            /\ \A k \in keys :
                 LET src == sources(k)
                     hits == {i \in 1..3 : IsMeaningful(src[i])}
                 IN  hits # {} =>
                        LET first == CHOOSE i \in hits : \A j \in hits : i <= j
                        IN  /\ k \in DOMAIN fl_out.v
                            /\ fl_out.v[k] =
                                  (IF src[first].t \in {"arr", "obj"}
                                   THEN flattenLeadPayload(src[first])
                                   ELSE src[first])
            /\ fl_in = MkObj([foo |-> SX, contact_data |-> MkObj([foo |-> SY, bar |-> SZ])])
                  => fl_out = MkObj([foo |-> SX, bar |-> SZ])

C7_Witness ==
    /\ fl_pc = "flattened"
    /\ fl_in = MkObj([foo |-> Blank,
                      contact_data |-> MkObj([foo |-> SY, bar |-> SZ]),
                      person_data |-> MkObj([foo |-> SZ, id |-> Num(3)])])
    /\ fl_out = MkObj([foo |-> SY, bar |-> SZ, id |-> Num(3)])

\* C8: a wrapper flattens to the flattening of its `value` field (to the
\* value itself when that is a scalar), its metadata discarded; an object
\* with `value` and an unrecognized key flattens to an object that keeps
\* `value` and every other key apart from the merged detail keys.
C8_WrapperUnwrap ==
    fl_pc \in {"flattened", "reflattened"} =>
        /\ IsWrapper(fl_in) =>
              /\ fl_out = flattenLeadPayload(fl_in.v["value"])
              /\ fl_in.v["value"].t \notin {"arr", "obj"} => fl_out = fl_in.v["value"]
        /\ (/\ fl_in.t = "obj"
            /\ "value" \in DOMAIN fl_in.v
            /\ ~IsWrapper(fl_in)) =>
              /\ fl_out.t = "obj"
              /\ (DOMAIN fl_in.v) \ DetailKeys \subseteq DOMAIN fl_out.v
              /\ fl_in.v["value"].t \notin {"arr", "obj"} => fl_out.v["value"] = fl_in.v["value"]

C8_Witness ==
    /\ fl_pc = "flattened"
    /\ fl_in = MkObj([value |-> SV, created |-> ST, id |-> Num(1)])
    /\ fl_out = SV

(***************************************************************************)
(* Claims about the categorizer (specification CategorizerSpec)             *)
(***************************************************************************)
BucketNames == {"emails", "linkedins", "company_linkedins", "domains"}

Occurrences(seq, x) == Cardinality({i \in 1..Len(seq) : seq[i] = x})

\* C9: every input entry is in exactly one of the four buckets, as often as
\* it occurs in the input, and the bucket lengths add up to the input length.
C9_Partition ==
    cat_pc = "done" =>
        /\ Len(cat_out.emails) + Len(cat_out.linkedins)
              + Len(cat_out.company_linkedins) + Len(cat_out.domains) = Len(cat_in)
        /\ \A i \in 1..Len(cat_in) :
              \E b \in BucketNames :
                 /\ Occurrences(cat_out[b], cat_in[i]) = Occurrences(cat_in, cat_in[i])
                 /\ \A c \in BucketNames \ {b} : Occurrences(cat_out[c], cat_in[i]) = 0

C9_Witness ==
    /\ cat_pc = "done"
    /\ Len(cat_in) = 3
    /\ cat_in[1] = cat_in[3]
    /\ Len(cat_out.emails) = 2
    /\ Len(cat_out.domains) = 1

\* The four classes as the specification words them, on a lower-cased copy.
IsEmail(e) == Includes(ToLowerCase(e), At)
IsCompany(e) ==
    /\ ~IsEmail(e)
    /\ \/ Includes(ToLowerCase(e), LinkedinCompany)
       \/ Includes(ToLowerCase(e), LinkedinSchool)
IsProfile(e) == ~IsEmail(e) /\ ~IsCompany(e) /\ Includes(ToLowerCase(e), LinkedinCom)
IsDomain(e) == ~IsEmail(e) /\ ~IsCompany(e) /\ ~IsProfile(e)

\* C10: each bucket is the subsequence, in input order and as typed, of the
\* entries of its class: `@` first, then linkedin.com/company or
\* linkedin.com/school, then linkedin.com/, then the rest, matched without
\* regard to case.
C10_ClassificationOrder ==
    cat_pc = "done" =>
        /\ cat_out.emails = SelectSeq(cat_in, IsEmail)
        /\ cat_out.company_linkedins = SelectSeq(cat_in, IsCompany)
        /\ cat_out.linkedins = SelectSeq(cat_in, IsProfile)
        /\ cat_out.domains = SelectSeq(cat_in, IsDomain)

C10_Witness ==
    /\ cat_pc = "done"
    /\ cat_in = << <<"L", "i", "n", "k", "e", "d", "I", "n", ".", "c", "o", "m", "/", "S", "c", "h", "o", "o", "l", "/", "Y">>,
                   <<"l", "i", "n", "k", "e", "d", "i", "n", ".", "c", "o", "m", "/", "c", "o", "m", "p", "a", "n", "y", "/", "@", "x">>,
                   <<"w", ".", "l", "i", "n", "k", "e", "d", "i", "n", ".", "c", "o", "m", "/", "c", "o", "m", "p", "a", "n", "y", "/", "x">> >>
    /\ cat_out.emails = <<cat_in[2]>>
    /\ cat_out.company_linkedins = <<cat_in[1], cat_in[3]>>
    /\ cat_out.linkedins = <<>>
    /\ cat_out.domains = <<>>

(***************************************************************************)
(* Claims about the splitter (specification SplitterSpec)                   *)
(***************************************************************************)
\* The lines of a text read off its "LF" positions: line k lies between the
\* (k-1)-th and the k-th "LF".
LinesByBreaks(s) ==
    LET breaks == {i \in 1..Len(s) : s[i] = "LF"}
        n == Cardinality(breaks)
        BreakAt(k) == IF k = 0 THEN 0
                      ELSE IF k = n + 1 THEN Len(s) + 1
                      ELSE CHOOSE i \in breaks : Cardinality({j \in breaks : j < i}) = k - 1
    IN  [k \in 1..(n + 1) |-> SubSeq(s, BreakAt(k - 1) + 1, BreakAt(k) - 1)]

IsBlankChar(c) == c \in {" ", "CR", "LF", "TAB"}

\* A line without its leading and trailing blanks.
Stripped(line) ==
    LET solid == {i \in 1..Len(line) : ~IsBlankChar(line[i])}
    IN  IF solid = {} THEN <<>>
        ELSE SubSeq(line, CHOOSE i \in solid : \A j \in solid : i <= j,
                          CHOOSE i \in solid : \A j \in solid : i >= j)

\* C11: on a string the splitter returns, in line order, the trimmed lines
\* that are not blank, lines ending at every \n or \r\n, so every entry is
\* non-empty and starts and ends with a non-blank character; on a value that
\* is not a string it returns the empty list.
C11_Splitter ==
    sp_pc = "done" =>
        /\ sp_in.t # "str" => sp_out = <<>>
        /\ sp_in.t = "str" =>
              LET lines == LinesByBreaks(sp_in.v)
                  stripped == [k \in 1..Len(lines) |-> Stripped(lines[k])]
              IN  /\ sp_out = SelectSeq(stripped, NonEmpty)
                  /\ \A i \in 1..Len(sp_out) :
                        /\ sp_out[i] # <<>>
                        /\ ~IsBlankChar(sp_out[i][1])
                        /\ ~IsBlankChar(sp_out[i][Len(sp_out[i])])

C11_Witness ==
    /\ sp_pc = "done"
    /\ sp_in = Str(<<" ", "a", "CR", "LF", "b">>)
    /\ sp_out = << <<"a">>, <<"b">> >>

(***************************************************************************)
(* The pagination loops: what the vendor offers, seen from outside          *)
(***************************************************************************)
RECURSIVE ListedUpTo(_, _)
\* The records of the vendor's listed pages 1..m, in page order.
ListedUpTo(srv, m) ==
    IF m = 0 THEN <<>> ELSE ListedUpTo(srv, m - 1) \o RunsAt(srv, m)

\* The records of pages 1..m of the vendor, in page order: the listed pages
\* and, past them, the full pages an endless vendor goes on answering.
PagesUpTo(srv, m) ==
    IF m <= Len(srv.sizes) THEN ListedUpTo(srv, m)
    ELSE ListedUpTo(srv, Len(srv.sizes))
         \o (IF srv.endless
             THEN [i \in 1..(m - Len(srv.sizes)) |-> RunsAt(srv, Len(srv.sizes) + i)[1]]
             ELSE <<>>)

RECURSIVE ListedTotal(_, _)
ListedTotal(srv, m) ==
    IF m = 0 THEN 0 ELSE ListedTotal(srv, m - 1) + PageSizeAt(srv, m)

\* The number of records on pages 1..m of the vendor.
TotalUpTo(srv, m) ==
    IF m <= Len(srv.sizes) THEN ListedTotal(srv, m)
    ELSE ListedTotal(srv, Len(srv.sizes))
         + (IF srv.endless THEN (m - Len(srv.sizes)) * DEFAULT_PAGE_SIZE ELSE 0)

\* The number of non-empty pages before the first empty one.
RECURSIVE NonEmptyFrom(_, _)
NonEmptyFrom(srv, k) ==
    IF PageSizeAt(srv, k) = 0 THEN 0 ELSE 1 + NonEmptyFrom(srv, k + 1)

\* The count a response of the vendor shows (an array body shows none).
CountShown(srv) == IF srv.shape = "array" THEN Undef ELSE srv.count

HasCount(srv) == CountShown(srv).t = "num"

CountReachedAt(srv, k) == HasCount(srv) /\ TotalUpTo(srv, k) >= CountShown(srv).v

ShortAt(srv, k) == PageSizeAt(srv, k) < DEFAULT_PAGE_SIZE

\* A lead list over pages the code recognises, ended by an empty page.
LeadListOver ==
    /\ ag_op = "leadList"
    /\ ~server.endless
    /\ server.shape \in {"items", "results", "array"}

LeadListDone == LeadListOver /\ ag_pc = "done"

PagesAsked == [k \in 1..Len(requests) |-> Num(k)]

ConcatenationReturned ==
    ag_result = [kind |-> "value",
                 body |-> FlattenRuns(PagesUpTo(server, Len(requests)))]

\* C12 as stated: the lead list returns the pages it fetched in page order,
\* the k-th call asks for page k, and the number of calls is the number of
\* non-empty pages plus one unless a chunk shorter than 1000 ended the loop.
C12_Original ==
    /\ LeadListOver => requests = PagesAsked
    /\ LeadListDone =>
          /\ ConcatenationReturned
          /\ \/ Len(requests) = NonEmptyFrom(server, 1) + 1
             \/ ShortAt(server, Len(requests))

\* Where the lead list ends after page k.
LeadListEndsAt(srv, k) ==
    \/ PageSizeAt(srv, k) = 0
    \/ CountReachedAt(srv, k)
    \/ (~HasCount(srv) /\ ShortAt(srv, k))

\* C12, amended: the lead list returns the pages it fetched in page order,
\* the k-th call asks for page k, and the last call is the first page that
\* is empty, or reaches the numeric count the responses report, or, when
\* they report none, is shorter than 1000.
C12_PageNumberAggregation ==
    /\ LeadListOver => requests = PagesAsked
    /\ LeadListDone =>
          /\ ConcatenationReturned
          /\ LeadListEndsAt(server, Len(requests))
          /\ \A k \in 1..(Len(requests) - 1) : ~LeadListEndsAt(server, k)

\* Three full pages and the count reached on the third: three calls, no
\* terminator call.
C12_Witness ==
    /\ LeadListDone
    /\ server.sizes = <<DEFAULT_PAGE_SIZE, DEFAULT_PAGE_SIZE, 400>>
    /\ server.count = Num(2000)
    /\ server.shape = "items"
    /\ Len(requests) = 2
    /\ LengthOf(ag_result.body) = 2000

\* A reactor search against a vendor that answers `results` pages chained
\* by cursors and ends the chain with a null or absent next_cursor.
ReactorsOver ==
    /\ ag_op \in {"searchPostReactors", "profilesPostReactors"}
    /\ ~server.endless
    /\ server.shape = "results"
    /\ server.lastCursor \in {Null, Undef}

\* The pages the vendor offers: page 1, and every page a cursor leads to.
PagesOffered(srv) == IF srv.sizes = <<>> THEN 1 ELSE Len(srv.sizes)

CursorsCarried ==
    [k \in 1..Len(requests) |-> IF k = 1 THEN Undef ELSE NextCursorAt(server, k - 1)]

\* C13: a reactor search starts with no cursor, carries each non-null
\* next_cursor in the next request, stops on a null or absent one, and
\* returns the `results` chunks of every page the vendor offers, in order.
C13_CursorAggregation ==
    /\ ReactorsOver => requests = CursorsCarried
    /\ (ReactorsOver /\ ag_pc = "done") =>
          /\ Len(requests) = PagesOffered(server)
          /\ ag_result = [kind |-> "value",
                          body |-> PagesUpTo(server, PagesOffered(server))]

\* C14: every paginated operation issues at most 1000 gateway calls and
\* then returns or fails, whatever the vendor answers: an operation in its
\* loop can always take a round, a round either ends the operation or
\* counts one iteration more, and neither the iterations nor the calls
\* ever exceed 1000.
C14_PaginationTerminates ==
    /\ [](Len(requests) <= 1000 /\ iteration <= 1000)
    /\ [](ag_pc = "loop" => ENABLED AggregatorNext)
    /\ [][ag_pc = "loop" =>
            \/ ag_pc' \in {"done", "failed"}
            \/ (ag_pc' = "loop" /\ iteration' = iteration + 1)]_vars
    /\ [][ag_pc # "loop" => (ag_pc' = ag_pc /\ requests' = requests)]_vars

\* A vendor that never ends, read for 1000 rounds and then returned.
C14_Witness ==
    /\ server.endless
    /\ ag_pc = "done"
    /\ ag_result.kind = "value"
    /\ Len(requests) = 1000
    /\ Len(ag_result.body) = 1000
    /\ ag_result.body[1000].n = DEFAULT_PAGE_SIZE

\* C15: when a gateway call inside a pagination loop fails, the operation
\* ends with that error and carries none of the pages accumulated before
\* it, and the failing call is the last call made.
C15_FailureDiscardsPartial ==
    ag_pc = "failed" =>
        /\ ag_result \in [kind : {"error"}, error : TransportErrors]
        /\ Len(requests) = iteration + 1
        /\ ~ENABLED AggregatorNext

\* The reply list fails on its third call, two full pages already read.
C15_Witness ==
    /\ ag_pc = "failed"
    /\ ag_op = "replyList"
    /\ iteration = 2
    /\ requests = <<Num(0), Num(DEFAULT_PAGE_SIZE), Num(2 * DEFAULT_PAGE_SIZE)>>
    /\ ag_result.kind = "error"

\* A lead list over pages the code recognises (the vendor may never end).
LeadListRecognised ==
    /\ ag_op = "leadList"
    /\ server.shape \in {"items", "results", "array"}

\* C20 as stated: after a page the lead list stops exactly when the chunk
\* is empty, or the reported count is reached, or the chunk is shorter than
\* 1000; otherwise it goes on with the next page.
C20_Original ==
    LeadListRecognised =>
        /\ \A k \in 1..(Len(requests) - 1) :
              ~(PageSizeAt(server, k) = 0 \/ CountReachedAt(server, k) \/ ShortAt(server, k))
        /\ ag_pc = "loop" => position = Num(Len(requests) + 1)
        /\ ag_pc = "done" =>
              \/ iteration = ITERATION_CAP
              \/ PageSizeAt(server, Len(requests)) = 0
              \/ CountReachedAt(server, Len(requests))
              \/ ShortAt(server, Len(requests))

\* C20, amended: after a page the lead list stops exactly when the chunk is
\* empty, or the response reports a numeric count that the accumulated
\* records reach, or it reports no numeric count and the chunk is shorter
\* than 1000; otherwise it goes on with the next page.
C20_StopConditions ==
    LeadListRecognised =>
        /\ \A k \in 1..(Len(requests) - 1) : ~LeadListEndsAt(server, k)
        /\ ag_pc = "loop" => position = Num(Len(requests) + 1)
        /\ ag_pc = "done" =>
              \/ iteration = ITERATION_CAP
              \/ LeadListEndsAt(server, Len(requests))

\* A short first page with the reported count not reached: the list goes
\* on to page 2.
C20_Witness ==
    /\ LeadListRecognised
    /\ ag_pc = "loop"
    /\ server.sizes = <<400, DEFAULT_PAGE_SIZE>>
    /\ server.count = Num(2000)
    /\ server.shape = "results"
    /\ requests = <<Num(1)>>
    /\ position = Num(2)
    /\ LengthOf(records) = 400

(***************************************************************************)
(* The trigger's webhook hooks: claims                                      *)
(***************************************************************************)
DeleteAnswered404 ==
    /\ wh_last.hook = "delete"
    /\ wh_last.outcome.kind = "error"
    /\ wh_last.outcome.error.httpCode = [t |-> "str", v |-> "404"]

\* C16: when the DELETE of the delete hook is answered with HTTP 404 the
\* hook returns true and the static data holds no webhook id any more.
C16_DeleteTolerates404 ==
    DeleteAnswered404 =>
        /\ wh_result = [kind |-> "value", value |-> TRUE]
        /\ "webhookId" \notin DOMAIN staticData

\* A webhook created as 1, removed at the vendor, then deleted by the hook.
C16_Witness ==
    /\ DeleteAnswered404
    /\ wh_last.request = DeleteWebhook(1)
    /\ wh_calls = 2
    /\ wh_result.kind = "value"
    /\ staticData = <<>>

(***************************************************************************)
(* The trigger's receiver: claims                                           *)
(***************************************************************************)
\* C17: for a 'person_added' event the trigger emits, for the person record
\* it carries (an object that is not itself an attribute wrapper), exactly
\* what flattenLeadPayload yields for that record.
C17_ReceiverFlattensAsFlattener ==
    (fl_pc = "emitted" /\ isPlainObject(fl_in) /\ ~isAttributeValueObject(fl_in)) =>
        fl_person.emitted = <<flattenLeadPayload(fl_in)>>

(***************************************************************************)
(* The lead payload builder: claims                                         *)
(***************************************************************************)
\* The words of a text, read off the positions where a word starts.
WordStarts(s) == { i \in 1..Len(s) : ~IsBlankChar(s[i]) /\ (i = 1 \/ IsBlankChar(s[i - 1])) }

WordEnd(s, i) ==
    CHOOSE j \in i..Len(s) :
        /\ \A k \in i..j : ~IsBlankChar(s[k])
        /\ (j = Len(s) \/ IsBlankChar(s[j + 1]))

RECURSIVE WordsFrom(_, _)
WordsFrom(s, starts) ==
    IF starts = {} THEN <<>>
    ELSE LET i == CHOOSE m \in starts : \A n \in starts : m <= n
         IN  <<SubSeq(s, i, WordEnd(s, i))>> \o WordsFrom(s, starts \ {i})

Words(s) == WordsFrom(s, WordStarts(s))

FullNameWords ==
    IF pl_params["leadFullName"].t = "str" THEN Words(pl_params["leadFullName"].v) ELSE <<>>

\* The payload carries the supplied value under the key, or, when the
\* supplied value is empty, does not carry the key.
Kept(key, supplied) ==
    IF supplied \in {Str(<<>>), Null, Undef} THEN key \notin DOMAIN pl_body.v
    ELSE key \in DOMAIN pl_body.v /\ pl_body.v[key] = supplied

\* The words joined by single blanks: a text with these words, no blank at
\* either end and no two blanks in a row.
IsJoinOf(text, words) ==
    /\ Words(text) = words
    /\ text # <<>> => ~IsBlankChar(text[1]) /\ ~IsBlankChar(text[Len(text)])
    /\ \A i \in 1..(Len(text) - 1) : ~(IsBlankChar(text[i]) /\ IsBlankChar(text[i + 1]))

\* C18: a full name of at least two words gives first_name its first word
\* and last_name the other words joined by single blanks, whatever first
\* and last name were supplied; a full name of fewer words (or none) leaves
\* the supplied first and last name.
C18_FullNameRule ==
    pl_pc = "built" =>
        IF Len(FullNameWords) >= 2
        THEN /\ Prop(pl_body.v, "first_name") = Str(FullNameWords[1])
             /\ Prop(pl_body.v, "last_name").t = "str"
             /\ IsJoinOf(Prop(pl_body.v, "last_name").v, Tail(FullNameWords))
        ELSE /\ Kept("first_name", pl_params["leadFirstName"])
             /\ Kept("last_name", pl_params["leadLastName"])

\* "a b a" with first and last name supplied: first_name a, last_name "b a".
C18_Witness ==
    /\ pl_pc = "built"
    /\ pl_params["leadFullName"] = Str(<<"a", " ", "b", " ", "a">>)
    /\ pl_params["leadFirstName"] = Str(<<"f">>)
    /\ pl_params["leadLastName"] = Str(<<"l">>)
    /\ pl_body.v["first_name"] = Str(<<"a">>)
    /\ pl_body.v["last_name"] = Str(<<"b", " ", "a">>)

\* The custom-field pairs given with a non-empty key and a non-empty value.
GivenFields ==
    IF Prop(pl_params["customFields"].v, "field").t = "arr"
    THEN Prop(pl_params["customFields"].v, "field").v
    ELSE <<>>

GoodPairs ==
    { <<GivenFields[i].key, GivenFields[i].value>> :
         i \in { j \in 1..Len(GivenFields) :
                    GivenFields[j].key # "" /\ GivenFields[j].value # Str(<<>>) } }

HeldPairs ==
    IF "custom_fields" \in DOMAIN pl_body.v
    THEN { <<k, pl_body.v["custom_fields"].v[k]>> : k \in DOMAIN pl_body.v["custom_fields"].v }
    ELSE {}

NoEmptyTopLevel ==
    /\ Prop(pl_body.v, "data_source") = UserProvided
    /\ \A k \in DOMAIN pl_body.v : pl_body.v[k] \notin {Str(<<>>), Null, Undef}
    /\ "custom_fields" \in DOMAIN pl_body.v => HeldPairs # {}

\* C19 as stated: data_source is 'user_provided', no top-level value is
\* empty, and custom_fields holds exactly the pairs given with a non-empty
\* key and a non-empty value.
C19_Original ==
    pl_pc = "built" => NoEmptyTopLevel /\ HeldPairs = GoodPairs

\* The last pair given for a key, among the pairs with a non-empty key and
\* a non-empty value.
LastGoodPairs ==
    { <<GivenFields[i].key, GivenFields[i].value>> :
         i \in { j \in 1..Len(GivenFields) :
                    /\ GivenFields[j].key # ""
                    /\ GivenFields[j].value # Str(<<>>)
                    /\ \A m \in (j + 1)..Len(GivenFields) :
                          ~(GivenFields[m].key = GivenFields[j].key
                            /\ GivenFields[m].value # Str(<<>>)) } }

\* C19, amended: data_source is 'user_provided', no top-level value is
\* empty, and custom_fields holds, for every key given with a non-empty
\* value, the last such value given for that key (and is absent when there
\* is no such pair).
C19_OmitsEmpties ==
    pl_pc = "built" => NoEmptyTopLevel /\ HeldPairs = LastGoodPairs

\* The key k given twice, a null e-mail and an undefined position.
C19_Witness ==
    /\ pl_pc = "built"
    /\ GivenFields = << [key |-> "k", value |-> Str(<<"v">>)], [key |-> "k", value |-> Str(<<"w">>)] >>
    /\ pl_params["leadEmail"] = Null
    /\ pl_params["leadPosition"] = Undef
    /\ HeldPairs = { <<"k", Str(<<"w">>)>> }
    /\ DOMAIN pl_body.v = {"data_source", "first_name", "custom_fields"}

\* A reply list over pages the code recognises (the vendor may never end).
ReplyListRecognised ==
    /\ ag_op = "replyList"
    /\ server.shape \in {"items", "results", "array"}

ReplyListEndsAt(srv, k) ==
    \/ PageSizeAt(srv, k) = 0
    \/ CountReachedAt(srv, k)
    \/ ShortAt(srv, k)

\* C21: the reply list starts at offset 0, its k-th request carries offset
\* (k-1)*1000, and after a page it stops exactly when the chunk is empty,
\* or the reported count is reached, or the chunk is shorter than 1000.
C21_OffsetAggregation ==
    ReplyListRecognised =>
        /\ requests = [k \in 1..Len(requests) |-> Num((k - 1) * 1000)]
        /\ \A k \in 1..(Len(requests) - 1) : ~ReplyListEndsAt(server, k)
        /\ ag_pc = "loop" => position = Num(Len(requests) * 1000)
        /\ ag_pc = "done" =>
              /\ \/ iteration = ITERATION_CAP
                 \/ ReplyListEndsAt(server, Len(requests))
              /\ ag_result = [kind |-> "value", body |-> PagesUpTo(server, Len(requests))]

\* A full page, then a short one with the reported count not reached: the
\* reply list stops after the second request.
C21_Witness ==
    /\ ReplyListRecognised
    /\ ag_pc = "done"
    /\ server.sizes = <<DEFAULT_PAGE_SIZE, 400, DEFAULT_PAGE_SIZE>>
    /\ server.count = Num(5000)
    /\ server.shape = "items"
    /\ requests = <<Num(0), Num(1000)>>
    /\ LengthOf(ag_result.body) = 1400

\* The operation has taken its first round without a gateway failure.
FirstRoundTaken == ag_pc \in {"loop", "done"} /\ Len(requests) >= 1

\* The first page was taken as the vendor's records / as an empty page.
FirstPageTaken == records # <<>> /\ Head(records) = Head(RunsAt(server, 1))

FirstPageEmpty ==
    /\ ag_pc = "done"
    /\ Len(requests) = 1
    /\ ag_result = [kind |-> "value", body |-> <<>>]

\* C22 as stated: every variant takes the page from `items`, from `results`
\* or from an array response, and takes anything else as an empty page.
C22_Original ==
    FirstRoundTaken =>
        IF server.shape \in {"items", "results", "array"} /\ PageSizeAt(server, 1) > 0
        THEN FirstPageTaken
        ELSE FirstPageEmpty

ShapesRead(op) ==
    IF op \in {"leadList", "replyList"} THEN {"items", "results", "array"}
    ELSE {"results"}

\* C22, amended: the lead list and the reply list take the page from
\* `items`, from `results` or from an array response; the reactor searches
\* take it from `results` only; any other response is an empty page.
C22_ShapeTolerance ==
    FirstRoundTaken =>
        IF server.shape \in ShapesRead(ag_op) /\ PageSizeAt(server, 1) > 0
        THEN FirstPageTaken
        ELSE FirstPageEmpty

\* A reactor search answered under `items` returns nothing.
C22_Witness ==
    /\ ag_op = "searchPostReactors"
    /\ server.shape = "items"
    /\ server.sizes = <<DEFAULT_PAGE_SIZE>>
    /\ FirstPageEmpty

(***************************************************************************)
(* Further claims about the gateway (specification Spec)                    *)
(***************************************************************************)
\* The one value of a header that counts: the first of a multi-valued one.
Considered(h) ==
    IF h.t = "arr" THEN (IF h.v = <<>> THEN Undef ELSE h.v[1]) ELSE h

\* A text that spells a number: digits, with or without a sign, blanks
\* around them aside. The empty text spells none.
SpellsNumber(h) ==
    /\ h.t = "str"
    /\ LET s == Stripped(h.v) IN
       \/ AllDigits(s)
       \/ (s # <<>> /\ Head(s) \in {"-", "+"} /\ AllDigits(Tail(s)))

SpelledValue(h) ==
    LET s == Stripped(h.v) IN
    IF Head(s) = "-" THEN 0 - DecimalValue(Tail(s))
    ELSE IF Head(s) = "+" THEN DecimalValue(Tail(s))
    ELSE DecimalValue(s)

CausesThrottle(h) ==
    SpellsNumber(Considered(h)) /\ SpelledValue(Considered(h)) < 10

\* C23: a call that returned slept 1000 ms exactly when one of the two
\* rate-limit headers of its response, read by its first value, spells a
\* number below 10: a missing header, and a header that spells no number
\* (the empty string included), cause no throttle.
C23_HeaderParsing ==
    gw_pc = "done" =>
        LET n == Len(log)
            h == IF log[n].headers = Undef THEN EmptyHeaders ELSE log[n].headers
        IN  CountOf(sleeps, 1000) =
                (IF CausesThrottle(h.minute) \/ CausesThrottle(h.day) THEN 1 ELSE 0)

\* C24: one call makes at most 6 transport calls and at most 5 sleeps of
\* 10000 ms, and its attempt counter never exceeds 6, whatever the
\* transport produces.
C24_BoundedAttempts ==
    /\ calls <= 6
    /\ calls = Len(log)
    /\ CountOf(sleeps, 10000) <= 5
    /\ attempt <= 6
    /\ attempt <= calls

\* Six 429 failures: six transport calls, five sleeps, the call has failed.
C24_Witness ==
    /\ gw_pc = "failed"
    /\ calls = 6
    /\ \A i \in 1..6 : Is429Failure(log[i])
    /\ sleeps = <<10000, 10000, 10000, 10000, 10000>>
    /\ attempt = 5

(***************************************************************************)
(* C25.  Validation precedes the network.                                  *)
(***************************************************************************)
\* The reference parameters an operation reads: option, manual variant.
ReferenceOf(op) ==
    CASE op \in {"leadCreate", "leadList"} -> <<"projectId", "projectIdManual">>
      [] op \in {"leadUpdate", "leadGet", "leadDelete"} -> <<"personId", "personIdManual">>
      [] op = "campaignDelete" -> <<"projectDeleteId", "projectDeleteIdManual">>
      [] op \in {"addToExclusionList", "removeFromExclusionList", "getExclusionList"} ->
           <<"projectBlacklistId", "projectBlacklistIdManual">>
      [] OTHER -> <<>>

\* The identifier text parameter an operation reads.
EntryOf(op) ==
    CASE op \in {"addToExclusionList", "removeFromExclusionList"} -> <<"blacklistEntry">>
      [] op \in {"addLead", "removeLead"} -> <<"globalBlacklistEntry">>
      [] OTHER -> <<>>

IsNumber(x) == x.t = "num" \/ SpellsNumber(x)

\* The item's reference is empty, or what it names (the manual value when
\* the manual option is selected) is not a number.
InvalidReference ==
    /\ ReferenceOf(vd_op) # <<>>
    /\ LET selection == vd_params[ReferenceOf(vd_op)[1]]
           manual == vd_params[ReferenceOf(vd_op)[2]]
       IN  \/ selection \in {Undef, Null, Str(<<>>)}
           \/ selection = MANUAL_ID_OPTION /\ ~IsNumber(manual)
           \/ selection # MANUAL_ID_OPTION /\ ~IsNumber(selection)

\* The item's identifier text is blank after trimming.
BlankEntry ==
    /\ EntryOf(vd_op) # <<>>
    /\ LET entry == vd_params[EntryOf(vd_op)[1]]
       IN  entry.t = "str" /\ Stripped(entry.v) = <<>>

IsOperationError(res) ==
    /\ res.kind = "error"
    /\ res.error \notin TransportErrors
    /\ res.error.httpCode.t = "absent"

\* C25: once an operation has run on an item whose campaign or lead
\* reference is empty or not a number, or whose identifier text is blank
\* after trimming, the operation has raised an operation error and no
\* gateway request has been issued for the item.
C25_ValidationPrecedesNetwork ==
    (vd_pc \notin {"idle", "start"} /\ (InvalidReference \/ BlankEntry))
        => /\ vd_pc = "failed"
           /\ IsOperationError(vd_result)
           /\ vd_requests = <<>>
           /\ requests = <<>>

\* An exclusion-list addition with a valid manual campaign id and a blank
\* identifier text has been rejected before any request.
C25_Witness ==
    /\ vd_op = "addToExclusionList"
    /\ vd_pc = "failed"
    /\ vd_params["projectBlacklistId"] = MANUAL_ID_OPTION
    /\ vd_params["projectBlacklistIdManual"] = Str(<<"8">>)
    /\ vd_params["blacklistEntry"] = Str(<<" ">>)
    /\ IsOperationError(vd_result)
    /\ vd_requests = <<>>

(***************************************************************************)
(* C26..C28.  The webhook id kept in the workflow static data.             *)
(***************************************************************************)
\* A step of the named hook.
HookStep(name) == wh_calls' # wh_calls /\ wh_last'.hook = name

\* The id a response body of POST /webhooks carries, as a number.
CarriesId(body) ==
    /\ body.t = "obj"
    /\ "id" \in DOMAIN body.v
    /\ body.v["id"].t = "num" \/ (body.v["id"].t = "str" /\ AllDigits(body.v["id"].v))

IdCarried(body) ==
    IF body.v["id"].t = "num" THEN body.v["id"].v ELSE DecimalValue(body.v["id"].v)

HookSucceeded == [kind |-> "value", value |-> TRUE]

\* C26: a create hook that succeeds stores exactly the id the vendor's
\* POST /webhooks returned; a delete hook with a stored id issues DELETE for
\* that id and, when the DELETE succeeds, leaves no webhook id stored; a
\* delete hook with no stored id issues no request and reports success.
C26_WebhookIdLifecycle ==
    [][ /\ (HookStep("create") /\ wh_result' = HookSucceeded)
             => /\ wh_last'.request = PostWebhooks
                /\ wh_last'.outcome.kind = "ok"
                /\ CarriesId(wh_last'.outcome.body)
                /\ staticData' = [k \in {"webhookId"} |-> Num(IdCarried(wh_last'.outcome.body))]
        /\ (HookStep("delete") /\ "webhookId" \in DOMAIN staticData)
             => /\ wh_last'.request = DeleteWebhook(staticData["webhookId"].v)
                /\ wh_last'.outcome.kind = "ok"
                      => ("webhookId" \notin DOMAIN staticData' /\ wh_result' = HookSucceeded)
        /\ (HookStep("delete") /\ "webhookId" \notin DOMAIN staticData)
             => /\ wh_last'.request = NoRequest
                /\ wh_result' = HookSucceeded
                /\ staticData' = staticData
      ]_vars

\* A create and then a delete have both succeeded, and nothing is stored.
C26_Witness ==
    /\ wh_calls = 2
    /\ wh_last.hook = "delete"
    /\ wh_last.outcome.kind = "ok"
    /\ wh_result = HookSucceeded
    /\ "webhookId" \notin DOMAIN staticData

IsNotFound(error) ==
    error.httpCode \in {[t |-> "str", v |-> "404"], [t |-> "num", v |-> 404]}

\* C27: when the DELETE of the delete hook fails with anything other than a
\* 404, the hook throws that error and the stored webhook id stays as it
\* was, so the next delete hook asks for the same id.
C27_DeleteKeepsIdOnError ==
    [][ (/\ HookStep("delete")
         /\ wh_last'.outcome.kind = "error"
         /\ ~IsNotFound(wh_last'.outcome.error))
           => /\ wh_result' = [kind |-> "error", error |-> wh_last'.outcome.error]
              /\ staticData' = staticData
              /\ staticData'["webhookId"] = Num(wh_last'.request.id)
      ]_vars

\* Two delete hooks in a row have failed with a 429 that outlived the
\* gateway's retries; the second asked for the id the first left stored.
C27_Witness ==
    /\ wh_calls = 3
    /\ wh_last.hook = "delete"
    /\ wh_last.outcome.kind = "error"
    /\ wh_last.outcome.error.httpCode = [t |-> "str", v |-> "429"]
    /\ wh_result = [kind |-> "error", error |-> wh_last.outcome.error]
    /\ "webhookId" \in DOMAIN staticData
    /\ staticData["webhookId"] = Num(wh_last.request.id)

\* C28: when POST /webhooks succeeds with a response that carries no numeric
\* id, the create hook fails with the operation error, the static data is
\* left as it was, and the webhook just registered at the vendor is not the
\* one a later delete hook would ask for.
C28_CreateWithoutId ==
    [][ (/\ HookStep("create")
         /\ wh_last'.outcome.kind = "ok"
         /\ ~CarriesId(wh_last'.outcome.body))
           => /\ wh_result' = [kind |-> "error", error |-> NoWebhookIdError]
              /\ staticData' = staticData
              /\ \E n \in vendor' \ vendor : Prop(staticData', "webhookId") # Num(n)
      ]_vars

\* A create hook has failed for want of an id while the vendor holds the
\* webhook it registered, and nothing is stored.
C28_Witness ==
    /\ wh_last.hook = "create"
    /\ wh_last.outcome.kind = "ok"
    /\ ~CarriesId(wh_last.outcome.body)
    /\ wh_result = [kind |-> "error", error |-> NoWebhookIdError]
    /\ staticData = <<>>
    /\ vendor # {}

(***************************************************************************)
(* C29.  The webhook existence check.                                      *)
(***************************************************************************)
\* The webhook list inside the vendor's answer.
ListedWebhooks ==
    IF ce_response.t = "arr" THEN ce_response.v
    ELSE IF ce_response.t # "obj" THEN <<>>
    ELSE IF "results" \in DOMAIN ce_response.v /\ ce_response.v["results"].t = "arr"
    THEN ce_response.v["results"].v
    ELSE IF "items" \in DOMAIN ce_response.v /\ ce_response.v["items"].t = "arr"
    THEN ce_response.v["items"].v
    ELSE <<>>

NoProjectSelected == ce_params["projectId"] \in {Undef, Null, Str(<<>>)}

\* The project the trigger names: the manual value under the manual option.
ProjectNamed ==
    IF ce_params["projectId"] = MANUAL_ID_OPTION THEN ce_params["projectIdManual"]
    ELSE ce_params["projectId"]

NumberNamed(x) == IF x.t = "num" THEN x.v ELSE SpelledValue(x)

ScopeMatches(entry) ==
    IF NoProjectSelected
    THEN \/ "project_ids" \notin DOMAIN entry.v
         \/ entry.v["project_ids"] = Null
         \/ entry.v["project_ids"] = Arr(<<>>)
    ELSE /\ "project_ids" \in DOMAIN entry.v
         /\ entry.v["project_ids"].t = "arr"
         /\ \E i \in 1..Len(entry.v["project_ids"].v) :
               /\ IsNumber(entry.v["project_ids"].v[i])
               /\ NumberNamed(entry.v["project_ids"].v[i]) = NumberNamed(ProjectNamed)

\* The entry is a webhook of this node for the selected event and scope.
IsThisWebhook(entry) ==
    /\ "url" \in DOMAIN entry.v
    /\ entry.v["url"] = ce_params["webhookUrl"]
    /\ "features" \in DOMAIN entry.v
    /\ \E i \in 1..Len(entry.v["features"].v) : entry.v["features"].v[i] = ce_params["feature"]
    /\ ScopeMatches(entry)

\* No earlier entry of the list is a webhook of this node.
IsFirstFound(i) ==
    /\ IsThisWebhook(ListedWebhooks[i])
    /\ \A j \in 1..(i - 1) : ~IsThisWebhook(ListedWebhooks[j])

\* C29: checkExists returns true exactly when the vendor's list holds an
\* entry with this node's URL, the selected event and a matching project
\* scope; when the entry it found (the first such entry) has a numeric id,
\* that id is the stored webhook id afterwards; when it returns false the
\* static data is as it was.
C29_ExistenceCheck ==
    [][ (ce_pc = "start" /\ ce_pc' = "returned")
          => /\ ce_result'.value
                  <=> (\E i \in 1..Len(ListedWebhooks) : IsThisWebhook(ListedWebhooks[i]))
             /\ \A i \in 1..Len(ListedWebhooks) :
                  (/\ ce_result'.value
                   /\ IsFirstFound(i)
                   /\ CarriesId(ListedWebhooks[i]))
                     => /\ "webhookId" \in DOMAIN staticData'
                        /\ staticData'["webhookId"] = Num(IdCarried(ListedWebhooks[i]))
             /\ ~ce_result'.value => staticData' = staticData
      ]_vars

\* The check ran for project 5 against a results-shaped answer of two
\* webhooks, found the second and stored its id over an older one.
C29_Witness ==
    /\ ce_pc = "returned"
    /\ ce_result = [kind |-> "value", value |-> TRUE]
    /\ ce_params["projectId"] = Str(<<"5">>)
    /\ ce_response.t = "obj"
    /\ Len(ListedWebhooks) = 2
    /\ ~IsThisWebhook(ListedWebhooks[1])
    /\ IsFirstFound(2)
    /\ staticData = [k \in {"webhookId"} |-> Num(2)]

(***************************************************************************)
(* C30.  The retry trigger is the string status only.                      *)
(***************************************************************************)
\* C30: the gateway goes to its retry sleep only from a failure whose
\* httpCode is the string "429"; a failure with no httpCode, or with an
\* httpCode that is not a string, fails the call with that error in the
\* same attempt, with no sleep and no further transport call.
C30_RetryOnStringStatusOnly ==
    [][ /\ (gw_pc = "catch" /\ gw_pc' = "retrySleep")
             => (~response.ok /\ response.error.httpCode = Status429)
        /\ (gw_pc = "catch" /\ response.error.httpCode.t # "str")
             => /\ gw_pc' = "failed"
                /\ result' = [kind |-> "error", error |-> response.error]
                /\ attempt' = attempt
                /\ sleeps' = sleeps
                /\ calls' = calls
        /\ gw_pc = "failed" => (gw_pc' = "failed" /\ calls' = calls /\ sleeps' = sleeps)
      ]_vars

\* The first attempt failed with the number 429 and the call failed at once.
C30_Witness ==
    /\ gw_pc = "failed"
    /\ Len(log) = 1
    /\ ~log[1].ok
    /\ log[1].error.httpCode = [t |-> "num", v |-> 429]
    /\ result = [kind |-> "error", error |-> log[1].error]
    /\ attempt = 0
    /\ calls = 1
    /\ sleeps = <<>>

=============================================================================
